---- MODULE Spec2Model ----
(***************************************************************************)
(* A model of the T3C pyserver pipeline (src/pyserver/main.py): the four   *)
(* request handlers comments_to_tree, all_comments_to_claims,              *)
(* sort_claims_tree and cruxes_from_tree, with the helpers they call.      *)
(* Every handler has a specification of its own (SpecTree, SpecClaims,     *)
(* Spec, SpecCrux); the request and the model responses are its inputs.    *)
(* SpecRank starts cruxes_from_tree at the end of its crux loop and runs   *)
(* the scoring, controversy_matrix and top_k_cruxes over every table.      *)
(* SpecParse runs extract_json_from_response of json_response_parser.py    *)
(* over model responses written as tokens, strategy by strategy, and       *)
(* SpecClean runs clean_json_comments line by line.                        *)
(***************************************************************************)
EXTENDS Integers, Sequences, FiniteSets, TLC

VARIABLES
    pc,               \* position of the running handler
    \* ---- sort_claims_tree (stage 3)
    claims_tree,      \* req.tree, as the ordered items of the dict
    sort,             \* req.sort
    ti,               \* index of the topic the outer loop is at
    si,               \* index of the subtopic the inner loop is at
    per_topic_total,
    per_topic_list,   \* items of the dict, in insertion order
    sorted_tree,      \* items of the dict, in insertion order
    full_sort_tree,   \* the returned data
    claim_bound,      \* whether the local name `claim` is bound
    deduped,          \* the shape of the last response["dedup_claims"]
    dupe_map,         \* the claim_set built from the last response
    \* ---- comments_to_tree (stage 1)
    content_tree,     \* what extract_json_from_response makes of the response
    tree,             \* the taxonomy object being normalized
    topic_i,          \* index of the topic the normalization loop is at
    data,             \* the returned data
    \* ---- all_comments_to_claims (stage 2)
    req_tree,         \* req.tree
    comments,         \* req.comments
    comment_i,        \* index of the comment the extraction loop is at
    comms_to_claims,
    claim_i,          \* index of the claim the placement loop is at
    node_counts,
    cover_i,          \* index of the taxonomy topic the coverage loop is at
    TK_2_TOT,         \* the total_tokens the stage has added up
    issued_tokens,    \* the total_tokens of every call the model has served
    \* ---- cruxes_from_tree (stage 4)
    crux_tree,        \* req.crux_tree, as the ordered items of the dict
    top_k,            \* req.top_k
    crux_ti,          \* index of the topic the outer loop is at
    crux_si,          \* index of the subtopic the inner loop is at
    speaker_map,      \* speaker name -> anonymous id
    llm_response,     \* what cruxes_for_topic returned for the subtopic
    llm_calls,        \* the calls cruxes_for_topic has made to the model
    crux_claims,
    cont_mat,
    full_controversy_matrix,
    top_cruxes,
    \* ---- extract_json_from_response, clean_json_comments
    origin,           \* what the text was written from
    response_content, \* the content of the model response, as tokens
    result,           \* the value returned: <<>> before the return
    json_str,         \* the text given to clean_json_comments, as tokens
    line_i,           \* index of the line the cleaning loop is at
    cleaned_lines,
    cleaned           \* the text clean_json_comments returns

vars1 == <<content_tree, tree, topic_i, data>>
usage2 == <<TK_2_TOT, issued_tokens>>
vars2 == <<req_tree, comments, comment_i, comms_to_claims, claim_i, node_counts, cover_i,
           usage2>>
vars3 == <<claims_tree, sort, ti, si, per_topic_total, per_topic_list,
           sorted_tree, full_sort_tree, claim_bound, deduped, dupe_map>>
vars4 == <<crux_tree, top_k, crux_ti, crux_si, speaker_map, llm_response, llm_calls,
           crux_claims, cont_mat,
           full_controversy_matrix, top_cruxes>>
vars5 == <<origin, response_content, result, json_str, line_i, cleaned_lines, cleaned>>
vars == <<pc, vars1, vars2, vars3, vars4, vars5>>

\* The variables of a handler that is not running.
Idle1 ==
    /\ content_tree = <<>>
    /\ tree = <<>>
    /\ topic_i = 0
    /\ data = <<>>
Idle2 ==
    /\ req_tree = <<>>
    /\ comments = <<>>
    /\ comment_i = 0
    /\ comms_to_claims = <<>>
    /\ claim_i = 0
    /\ node_counts = <<>>
    /\ cover_i = 0
    /\ TK_2_TOT = 0
    /\ issued_tokens = 0
Idle3 ==
    /\ claims_tree = <<>>
    /\ sort = ""
    /\ ti = 0
    /\ si = 0
    /\ per_topic_total = 0
    /\ per_topic_list = <<>>
    /\ sorted_tree = <<>>
    /\ full_sort_tree = <<>>
    /\ claim_bound = FALSE
    /\ deduped = ""
    /\ dupe_map = <<>>
Idle4 ==
    /\ crux_tree = <<>>
    /\ top_k = 0
    /\ crux_ti = 0
    /\ crux_si = 0
    /\ speaker_map = <<>>
    /\ llm_response = <<>>
    /\ llm_calls = 0
    /\ crux_claims = <<>>
    /\ cont_mat = <<>>
    /\ full_controversy_matrix = <<>>
    /\ top_cruxes = <<>>
Idle5 ==
    /\ origin = <<>>
    /\ response_content = <<>>
    /\ result = <<>>
    /\ json_str = <<>>
    /\ line_i = 0
    /\ cleaned_lines = <<>>
    /\ cleaned = <<>>

\* ------------------------------------------------------------------ bounds
\* Claims in one request tree.
MaxClaims == 3
\* Topics in the taxonomy a model response holds.
MaxTopics == 2
\* Claims the model extracts from the comments of one request.
MaxExtracted == 2
\* Cells (crux rows times speakers) of the score table of one request.
MaxCells == 6
\* The largest req.top_k.
MaxTopK == 2

Speakers == {"a", "b"}
SortKeys == {"numPeople", "numClaims", "other"}
\* Numbers of subtopics per topic of the request trees explored.
TreeShapes == {<<>>, <<0>>, <<1>>, <<2>>, <<2, 1>>, <<1, 2>>}
\* Lengths of the id list of a nesting entry explored.
DupeListLens == {0, 1, 2}

\* ----------------------------------------------------------------- helpers
Range(s) == {s[i] : i \in DOMAIN s}

Min(S) == CHOOSE x \in S : \A y \in S : x <= y

RECURSIVE SumSeq(_)
SumSeq(s) == IF s = <<>> THEN 0 ELSE Head(s) + SumSeq(Tail(s))

\* A dict entry set: d[k] = v, keeping the other keys.
DictPut(d, k, v) == [x \in DOMAIN d \cup {k} |-> IF x = k THEN v ELSE d[x]]

\* A copy of a dict with one more key.
WithField(c, f, v) == [x \in DOMAIN c \cup {f} |-> IF x = f THEN v ELSE c[x]]

\* ---------------------------------------------------- sorted(reverse=True)
\* Python's sorted(items, key=..., reverse=True) is stable: items with equal
\* keys keep their order. keys[i] is the key of items[i].
\* An insertion that puts an item before the items of equal key.
InsertBeforeEqual(perm, i, keys) ==
    LET p == Cardinality({j \in DOMAIN perm : keys[perm[j]] > keys[i]})
    IN  SubSeq(perm, 1, p) \o <<i>> \o SubSeq(perm, p + 1, Len(perm))

InsertDesc(perm, i, keys) ==
    LET p == Cardinality({j \in DOMAIN perm : keys[perm[j]] >= keys[i]})
    IN  SubSeq(perm, 1, p) \o <<i>> \o SubSeq(perm, p + 1, Len(perm))

RECURSIVE SortPerm(_, _)
SortPerm(keys, n) ==
    IF n = 0 THEN <<>> ELSE InsertDesc(SortPerm(keys, n - 1), n, keys)

SortedAscending(items, keys) ==
    LET perm == SortPerm([i \in DOMAIN keys |-> 0 - keys[i]], Len(keys))
    IN  [j \in DOMAIN items |-> items[perm[j]]]

SortedReverse(items, keys) ==
    LET perm == SortPerm(keys, Len(keys))
    IN  [j \in DOMAIN items |-> items[perm[j]]]

\* ------------------------------------------------- the dedup neighbour map
\* other_ids: all_dupes without position i.
other_ids(all_dupes, i) ==
    [j \in 1..(Len(all_dupes) - 1) |->
        IF j < i THEN all_dupes[j] ELSE all_dupes[j + 1]]

RECURSIVE AppendMissing(_, _)
AppendMissing(lst, others) ==
    IF others = <<>> THEN lst
    ELSE AppendMissing(IF Head(others) \in Range(lst) THEN lst
                       ELSE Append(lst, Head(others)),
                       Tail(others))

\* The loop over enumerate(all_dupes), from position i on.
RECURSIVE CloseDupes(_, _, _)
CloseDupes(cs, all_dupes, i) ==
    IF i > Len(all_dupes) THEN cs
    ELSE LET dupe == all_dupes[i]
             others == other_ids(all_dupes, i)
         IN  CloseDupes(IF dupe \in DOMAIN cs
                        THEN DictPut(cs, dupe, AppendMissing(cs[dupe], others))
                        ELSE DictPut(cs, dupe, others),
                        all_dupes, i + 1)

\* The loop over deduped["nesting"].items(); an entry is <<key id, list of ids>>.
RECURSIVE BuildClaimSet(_, _)
BuildClaimSet(cs, nesting) ==
    IF nesting = <<>> THEN cs
    ELSE LET claim_id == Head(nesting)[1]
             dupe_ids == Head(nesting)[2]
         IN  BuildClaimSet(IF Len(dupe_ids) > 0
                           THEN CloseDupes(cs, <<claim_id>> \o dupe_ids, 1)
                           ELSE cs,
                           Tail(nesting))

claim_set(nesting) == BuildClaimSet(<<>>, nesting)

\* ------------------------------------------------------- the duplicate fold
\* The claim found by its claimId field: <<claim>> or <<>> (None).
FindDupeClaim(claims, dupe_id) ==
    LET hits == {i \in DOMAIN claims :
                    /\ "claimId" \in DOMAIN claims[i]
                    /\ claims[i].claimId = dupe_id}
    IN  IF hits = {} THEN <<>> ELSE <<claims[Min(hits)]>>

\* The loop over dupe_ids: st = [accounted, duplicates].
RECURSIVE FoldDupes(_, _, _)
FoldDupes(claims, dupe_ids, st) ==
    IF dupe_ids = <<>> THEN st
    ELSE LET dupe_id == Head(dupe_ids)
             found == FindDupeClaim(claims, dupe_id)
         IN  FoldDupes(claims, Tail(dupe_ids),
                IF dupe_id \in st.accounted THEN st
                ELSE [accounted |-> st.accounted \cup {dupe_id},
                      duplicates |->
                         IF found = <<>> THEN st.duplicates
                         ELSE Append(st.duplicates,
                                     WithField(found[1], "duplicated", TRUE))])

\* The loop over enumerate(subtopic_data["claims"]), from position k on
\* (claim_id = k - 1): st = [accounted, deduped].
RECURSIVE FoldClaims(_, _, _, _)
FoldClaims(claims, cs, k, st) ==
    IF k > Len(claims) THEN st.deduped
    ELSE LET claim_id == k - 1
         IN  IF claim_id \in st.accounted
             THEN FoldClaims(claims, cs, k + 1, st)
             ELSE LET d == IF claim_id \in DOMAIN cs
                           THEN FoldDupes(claims, cs[claim_id],
                                          [accounted |-> st.accounted,
                                           duplicates |-> <<>>])
                           ELSE [accounted |-> st.accounted, duplicates |-> <<>>]
                      clean_claim == WithField(claims[k], "duplicates", d.duplicates)
                  IN  FoldClaims(claims, cs, k + 1,
                         [accounted |-> d.accounted \cup {claim_id},
                          deduped |-> Append(st.deduped, clean_claim)])

deduped_claims(claims, nesting) ==
    FoldClaims(claims, claim_set(nesting), 1, [accounted |-> {}, deduped |-> <<>>])

NumDuplicates(c) == IF "duplicates" \in DOMAIN c THEN Len(c.duplicates) ELSE 0

sorted_deduped_claims(claims, nesting) ==
    LET d == deduped_claims(claims, nesting)
    IN  SortedReverse(d, [i \in DOMAIN d |-> Len(d[i].duplicates)])

\* ------------------------------------------------- sort_claims_tree: inputs
TopicNames == <<"t1", "t2">>
SubtopicNames == <<"s1", "s2">>

\* A claim of Stage 2 (claim text k, speaker), with or without the optional
\* fields: a claim may lack its speaker, and a client may number its claims.
ClaimsAt(k, withIds) ==
    LET base == {[claim |-> k, speaker |-> s] : s \in Speakers} \cup {[claim |-> k]}
    IN  IF withIds THEN {WithField(c, "claimId", k) : c \in base} ELSE base

RECURSIVE ClaimLists(_, _)
ClaimLists(n, withIds) ==
    IF n = 0 THEN {<<>>}
    ELSE {Append(p, c) : p \in ClaimLists(n - 1, withIds), c \in ClaimsAt(n - 1, withIds)}

\* The subtopics dict of one topic: n buckets holding at most budget claims.
RECURSIVE SubtopicItems(_, _, _)
SubtopicItems(n, budget, withIds) ==
    IF n = 0 THEN {<<>>}
    ELSE UNION {
           {Append(rest, [subtopic |-> SubtopicNames[n], total |-> m, claims |-> cl]) :
               rest \in SubtopicItems(n - 1, budget - m, withIds),
               cl \in ClaimLists(m, withIds)} : m \in 0..budget}

NumClaimsIn(subs) == SumSeq([i \in DOMAIN subs |-> subs[i].total])

\* The request tree of a shape: topics in order, at most budget claims in all.
RECURSIVE TreeItems(_, _, _)
TreeItems(shape, budget, withIds) ==
    IF shape = <<>> THEN {<<>>}
    ELSE LET n == Len(shape)
         IN  UNION {
               {Append(rest, [topic |-> TopicNames[n], subtopics |-> subs]) :
                   rest \in TreeItems(SubSeq(shape, 1, n - 1),
                                      budget - NumClaimsIn(subs), withIds)} :
               subs \in SubtopicItems(shape[n], budget, withIds)}

TreeInputs ==
    UNION {TreeItems(shape, MaxClaims, withIds) :
              shape \in TreeShapes, withIds \in BOOLEAN}

\* The nestings a dedup response may hold over n claims: at most one entry
\* <<claim id, list of claim ids>>.
IdLists(n) == UNION {[1..l -> 0..(n - 1)] : l \in DupeListLens}
Nestings(n) == {<<>>} \cup {<<<<k, l>>>> : k \in 0..(n - 1), l \in IdLists(n)}

\* ------------------------------------------------ sort_claims_tree: actions
SpeakerOf(claim) == IF "speaker" \in DOMAIN claim THEN claim.speaker ELSE "unknown"

InLoop == pc = "loop" /\ ti <= Len(claims_tree)
topic_data == claims_tree[ti]
InSubtopic == InLoop /\ si <= Len(topic_data.subtopics)
subtopic_data == topic_data.subtopics[si]

\* per_topic_list[subtopic] = {...}
SubtopicRecord(claims, speakers) ==
    [subtopic |-> subtopic_data.subtopic,
     claims |-> claims,
     speakers |-> speakers,
     counts |-> [claims |-> subtopic_data.total, speakers |-> Cardinality(speakers)]]

\* total > 1 and dedup_claims returned an object: fold and sort the claims.
DedupSubtopic ==
    /\ InSubtopic
    /\ subtopic_data.total > 1
    /\ \E nesting \in Nestings(Len(subtopic_data.claims)) :
          LET claims == subtopic_data.claims
              per_topic_speakers == {SpeakerOf(claims[i]) : i \in DOMAIN claims}
          IN  /\ per_topic_list' =
                 Append(per_topic_list,
                        SubtopicRecord(sorted_deduped_claims(claims, nesting),
                                       per_topic_speakers))
              /\ dupe_map' = claim_set(nesting)
    /\ per_topic_total' = per_topic_total + subtopic_data.total
    /\ claim_bound' = TRUE
    /\ deduped' = "nesting"
    /\ si' = si + 1
    /\ UNCHANGED <<pc, claims_tree, sort, ti, sorted_tree, full_sort_tree>>
    /\ UNCHANGED <<vars1, vars2, vars4, vars5>>

\* The responses that leave claim_set empty: the content is unparseable or
\* not an object (dedup_claims returns {"nesting": {}}), or the object has
\* no nesting key.
DefaultedShapes == {"unparseable", "not_object", "no_nesting"}

\* total > 1 and the response holds no nesting: claim_set stays empty.
DedupDefaulted ==
    /\ InSubtopic
    /\ subtopic_data.total > 1
    /\ deduped' \in DefaultedShapes
    /\ dupe_map' = <<>>
    /\ LET claims == subtopic_data.claims
           per_topic_speakers == {SpeakerOf(claims[i]) : i \in DOMAIN claims}
       IN  per_topic_list' =
              Append(per_topic_list,
                     SubtopicRecord(sorted_deduped_claims(claims, <<>>),
                                    per_topic_speakers))
    /\ per_topic_total' = per_topic_total + subtopic_data.total
    /\ claim_bound' = TRUE
    /\ si' = si + 1
    /\ UNCHANGED <<pc, claims_tree, sort, ti, sorted_tree, full_sort_tree>>
    /\ UNCHANGED <<vars1, vars2, vars4, vars5>>

\* total > 1 and dedup_claims raised: the subtopic is skipped (continue).
DedupFailed ==
    /\ InSubtopic
    /\ subtopic_data.total > 1
    /\ per_topic_total' = per_topic_total + subtopic_data.total
    /\ si' = si + 1
    /\ UNCHANGED <<pc, claims_tree, sort, ti, per_topic_list, sorted_tree,
                   full_sort_tree, claim_bound, deduped, dupe_map>>
    /\ UNCHANGED <<vars1, vars2, vars4, vars5>>

\* The objects whose nesting is not a dict of lists of claimId<k> strings:
\* the nesting is a list or a string (.items() raises), a value is a
\* non-empty string or a number (split("Id")[1] or len() raises), or a key
\* with duplicates has no "Id" in it (split("Id")[1] raises).
MalformedShapes == {"nesting_not_map", "value_not_list", "key_without_Id"}

\* total > 1 and the nesting is malformed: the error is raised outside any
\* try.
DedupMalformed ==
    /\ InSubtopic
    /\ subtopic_data.total > 1
    /\ deduped' \in MalformedShapes
    /\ dupe_map' = <<>>
    /\ pc' = "raised"
    /\ per_topic_total' = per_topic_total + subtopic_data.total
    /\ UNCHANGED <<claims_tree, sort, ti, si, per_topic_list, sorted_tree,
                   full_sort_tree, claim_bound>>
    /\ UNCHANGED <<vars1, vars2, vars4, vars5>>

\* total <= 1: the claims are kept as they are.
SingleSubtopic ==
    /\ InSubtopic
    /\ subtopic_data.total <= 1
    /\ LET claims == subtopic_data.claims
       IN  \/ /\ claims # <<>>
              /\ "speaker" \notin DOMAIN claims[1]
              /\ ~claim_bound       \* print(..., claim): the name is unbound
              /\ pc' = "raised"
              /\ UNCHANGED <<si, per_topic_list>>
           \/ /\ claims # <<>> => ("speaker" \in DOMAIN claims[1] \/ claim_bound)
              /\ per_topic_list' =
                    Append(per_topic_list,
                           SubtopicRecord(claims,
                               IF claims = <<>> THEN {} ELSE {SpeakerOf(claims[1])}))
              /\ si' = si + 1
              /\ pc' = pc
    /\ per_topic_total' = per_topic_total + subtopic_data.total
    /\ UNCHANGED <<claims_tree, sort, ti, sorted_tree, full_sort_tree, claim_bound,
                   deduped, dupe_map>>
    /\ UNCHANGED <<vars1, vars2, vars4, vars5>>

AnySort(key) == TRUE

\* Whether one of the two branches that assign the sorted list is taken.
ValidSort(key) == key \in {"numPeople", "numClaims"}

SortKeyOf(x) ==
    IF sort = "numPeople" THEN x.counts.speakers ELSE x.counts.claims

SortByKey(items) == SortedReverse(items, [i \in DOMAIN items |-> SortKeyOf(items[i])])

\* After the subtopics of a topic: sort them and add the topic to sorted_tree.
FinishTopic ==
    /\ InLoop
    /\ si > Len(topic_data.subtopics)
    /\ IF ValidSort(sort)
       THEN LET set_topic_speakers ==
                    UNION {per_topic_list[i].speakers : i \in DOMAIN per_topic_list}
            IN  /\ sorted_tree' =
                      Append(sorted_tree,
                             [topic |-> topic_data.topic,
                              topics |-> SortByKey(per_topic_list),
                              speakers |-> set_topic_speakers,
                              counts |-> [claims |-> per_topic_total,
                                          speakers |-> Cardinality(set_topic_speakers)]])
                /\ ti' = ti + 1
                /\ si' = 1
                /\ per_topic_total' = 0
                /\ per_topic_list' = <<>>
                /\ pc' = pc
       ELSE \* sorted_subtopics was never assigned
            /\ pc' = "raised"
            /\ UNCHANGED <<ti, si, per_topic_total, per_topic_list, sorted_tree>>
    /\ UNCHANGED <<claims_tree, sort, full_sort_tree, claim_bound, deduped, dupe_map>>
    /\ UNCHANGED <<vars1, vars2, vars4, vars5>>

\* After the topics: sort them and return.
ReturnSorted ==
    /\ pc = "loop"
    /\ ti > Len(claims_tree)
    /\ IF ValidSort(sort)
       THEN /\ full_sort_tree' = SortByKey(sorted_tree)
            /\ pc' = "done"
       ELSE \* full_sort_tree was never assigned
            /\ pc' = "raised"
            /\ UNCHANGED full_sort_tree
    /\ UNCHANGED <<claims_tree, sort, ti, si, per_topic_total, per_topic_list,
                   sorted_tree, claim_bound, deduped,
                   dupe_map>>
    /\ UNCHANGED <<vars1, vars2, vars4, vars5>>

Init ==
    /\ pc = "loop"
    /\ claims_tree \in TreeInputs
    /\ sort \in SortKeys
    /\ ti = 1
    /\ si = 1
    /\ per_topic_total = 0
    /\ per_topic_list = <<>>
    /\ sorted_tree = <<>>
    /\ full_sort_tree = <<>>
    /\ claim_bound = FALSE
    /\ deduped = ""
    /\ dupe_map = <<>>
    /\ Idle1 /\ Idle2 /\ Idle4 /\ Idle5

Next ==
    \/ DedupSubtopic
    \/ DedupDefaulted
    \/ DedupFailed
    \/ DedupMalformed
    \/ SingleSubtopic
    \/ FinishTopic
    \/ ReturnSorted

Spec == Init /\ [][Next]_vars

\* ------------------------------------------------ sort_claims_tree: claims
\* The subtopic records of the returned tree.
ReturnedSubtopics ==
    UNION {Range(full_sort_tree[i].topics) : i \in DOMAIN full_sort_tree}

\* The claim texts of the entries of the duplicates lists of a subtopic record.
DuplicateEntries(s) ==
    UNION {{<<i, j>> : j \in 1..NumDuplicates(s.claims[i])} : i \in DOMAIN s.claims}

\* C1: count conservation. In the returned tree, for every subtopic, the sum
\* over its canonical claims of (1 + number of duplicates) is the subtopic's
\* total before deduplication.
C1_CountConservation ==
    pc = "done" =>
        \A s \in ReturnedSubtopics :
            SumSeq([i \in DOMAIN s.claims |-> 1 + NumDuplicates(s.claims[i])])
                = s.counts.claims

\* C2: duplicate symmetry. In the returned tree, every entry D of the
\* duplicates of a canonical claim has duplicated = TRUE and is not itself a
\* canonical claim of that subtopic.
C2_DuplicateSymmetry ==
    pc = "done" =>
        \A s \in ReturnedSubtopics :
            \A e \in DuplicateEntries(s) :
                LET D == s.claims[e[1]].duplicates[e[2]]
                IN  /\ "duplicated" \in DOMAIN D
                    /\ D.duplicated = TRUE
                    /\ \A i \in DOMAIN s.claims : s.claims[i].claim # D.claim

\* C9: duplicate folding. In every returned subtopic with more than one
\* claim, each input claim index appears exactly once, as a canonical or
\* inside one duplicates list, every duplicate is marked duplicated, and the
\* canonical of a group is its lowest index.
C9_DuplicateFolding ==
    pc = "done" =>
        \A s \in ReturnedSubtopics :
            s.counts.claims > 1 =>
                /\ \A k \in 0..(s.counts.claims - 1) :
                      Cardinality({i \in DOMAIN s.claims : s.claims[i].claim = k})
                      + Cardinality({e \in DuplicateEntries(s) :
                                      s.claims[e[1]].duplicates[e[2]].claim = k}) = 1
                /\ \A e \in DuplicateEntries(s) :
                      /\ s.claims[e[1]].duplicates[e[2]].duplicated = TRUE
                      /\ s.claims[e[1]].claim < s.claims[e[1]].duplicates[e[2]].claim

\* The sort key the claim names: counts.speakers for numPeople, counts.claims
\* for numClaims.
C5_Key(x) ==
    CASE sort = "numPeople" -> x.counts.speakers
      [] sort = "numClaims" -> x.counts.claims

C5_NonIncreasing(items) ==
    \A i \in 1..(Len(items) - 1) : C5_Key(items[i]) >= C5_Key(items[i + 1])

\* C5: sort monotonicity. In the returned tree the key of each topic is >=
\* the key of the next topic, and inside every topic the key of each subtopic
\* is >= the key of the next subtopic.
C5_SortMonotonicity ==
    pc = "done" =>
        /\ C5_NonIncreasing(full_sort_tree)
        /\ \A i \in DOMAIN full_sort_tree : C5_NonIncreasing(full_sort_tree[i].topics)

\* A returned tree in which the sort moved a topic and a subtopic forward.
C5_Witness ==
    /\ pc = "done"
    /\ Len(full_sort_tree) = 2
    /\ full_sort_tree[1].topic = "t2"
    /\ C5_Key(full_sort_tree[1]) > C5_Key(full_sort_tree[2])
    /\ \E i \in DOMAIN full_sort_tree :
          LET subs == full_sort_tree[i].topics
          IN  /\ Len(subs) = 2
              /\ subs[1].subtopic = "s2"
              /\ C5_Key(subs[1]) > C5_Key(subs[2])

\* Every claim of the subtopic the loop is at is the canonical claim of the
\* record just added, in order, without duplicates.
EveryClaimCanonical(rec) ==
    /\ Len(rec.claims) = Len(subtopic_data.claims)
    /\ \A i \in DOMAIN rec.claims :
          /\ rec.claims[i].claim = subtopic_data.claims[i].claim
          /\ rec.claims[i].duplicates = <<>>

\* C11: a malformed dedup response defaults to an empty nesting. Whenever
\* the response for a subtopic is unparseable or is not an object of the
\* form {nesting: {claimId<k>: [claimId<j>, ...]}}, the subtopic is treated as
\* having no duplicates, every claim is emitted as its own canonical, and
\* sort_claims_tree does not raise.
C11_MalformedDedupDefaults ==
    [][(DedupDefaulted \/ DedupMalformed)
          => /\ pc' = "loop"
             /\ per_topic_list' # <<>>
             /\ EveryClaimCanonical(per_topic_list'[Len(per_topic_list')])]_vars

C20_SpeakerFallback ==
    [][(/\ DedupSubtopic \/ DedupDefaulted \/ SingleSubtopic
        /\ \E i \in DOMAIN subtopic_data.claims :
              "speaker" \notin DOMAIN subtopic_data.claims[i])
          => /\ pc' = "loop"
             /\ per_topic_list' # <<>>
             /\ "unknown" \in per_topic_list'[Len(per_topic_list')].speakers]_vars

\* C24: symmetric closure of the dedup nesting. After the nesting of a
\* subtopic is processed, the neighbour map is symmetric (m is listed under
\* k exactly when k is listed under m), every list holds only the other
\* members of its group (never its own key) and no list repeats an id, for
\* any nesting, also one that repeats an id or lists the key itself.
C24_SymmetricClosure ==
    \A e \in DOMAIN dupe_map :
       /\ \A m \in Range(dupe_map[e]) :
             m \in DOMAIN dupe_map /\ e \in Range(dupe_map[m])
       /\ e \notin Range(dupe_map[e])
       /\ \A i, j \in DOMAIN dupe_map[e] :
             i # j => dupe_map[e][i] # dupe_map[e][j]

\* The positions of the returned tree that hold the topic named name.
ReturnedTopics(name) ==
    {i \in DOMAIN full_sort_tree : full_sort_tree[i].topic = name}

\* C30: stage 3 preserves the shape of the tree. In the returned tree every
\* topic of the input appears exactly once and every subtopic of an input
\* topic appears exactly once in the topics list of that topic, also when the
\* dedup call of a subtopic failed; and the counts.claims of each topic is
\* the sum of counts.claims over the subtopics listed under it.
C30_ShapePreserved ==
    pc = "done" =>
        /\ \A t \in DOMAIN claims_tree :
              /\ Cardinality(ReturnedTopics(claims_tree[t].topic)) = 1
              /\ \A i \in ReturnedTopics(claims_tree[t].topic) :
                    \A s \in DOMAIN claims_tree[t].subtopics :
                       Cardinality({j \in DOMAIN full_sort_tree[i].topics :
                                       full_sort_tree[i].topics[j].subtopic
                                          = claims_tree[t].subtopics[s].subtopic}) = 1
        /\ \A i \in DOMAIN full_sort_tree :
              full_sort_tree[i].counts.claims
                 = SumSeq([j \in DOMAIN full_sort_tree[i].topics |->
                              full_sort_tree[i].topics[j].counts.claims])

\* The position of a topic, and of a subtopic of a topic, in the request tree.
TopicPosition(name) ==
    Min({t \in DOMAIN claims_tree : claims_tree[t].topic = name})

SubtopicPosition(topic, name) ==
    LET subs == claims_tree[TopicPosition(topic)].subtopics
    IN  Min({s \in DOMAIN subs : subs[s].subtopic = name})

\* C28: ordering of canonical claims. In every returned subtopic whose total
\* is > 1 the canonical claims are ordered by number of duplicates,
\* descending, and canonicals with equal numbers keep their original claim
\* order; topics, and the subtopics of a topic, are ordered by the sort key,
\* descending, and those with equal keys keep their insertion order.
C28_StableOrdering ==
    pc = "done" =>
        /\ \A s \in ReturnedSubtopics :
              s.counts.claims > 1 =>
                 \A i, j \in DOMAIN s.claims :
                    i < j =>
                       \/ NumDuplicates(s.claims[i]) > NumDuplicates(s.claims[j])
                       \/ /\ NumDuplicates(s.claims[i]) = NumDuplicates(s.claims[j])
                          /\ s.claims[i].claim < s.claims[j].claim
        /\ \A i, j \in DOMAIN full_sort_tree :
              i < j =>
                 \/ C5_Key(full_sort_tree[i]) > C5_Key(full_sort_tree[j])
                 \/ /\ C5_Key(full_sort_tree[i]) = C5_Key(full_sort_tree[j])
                    /\ TopicPosition(full_sort_tree[i].topic)
                          < TopicPosition(full_sort_tree[j].topic)
        /\ \A t \in DOMAIN full_sort_tree :
              LET subs == full_sort_tree[t].topics
                  topic == full_sort_tree[t].topic
              IN  \A i, j \in DOMAIN subs :
                     i < j =>
                        \/ C5_Key(subs[i]) > C5_Key(subs[j])
                        \/ /\ C5_Key(subs[i]) = C5_Key(subs[j])
                           /\ SubtopicPosition(topic, subs[i].subtopic)
                                 < SubtopicPosition(topic, subs[j].subtopic)

\* A returned tree with two topics of equal key, one of them holding a
\* deduplicated subtopic with two canonicals of equal number of duplicates.
C28_Witness ==
    /\ pc = "done"
    /\ Len(full_sort_tree) = 2
    /\ C5_Key(full_sort_tree[1]) = C5_Key(full_sort_tree[2])
    /\ \E s \in ReturnedSubtopics :
          /\ s.counts.claims > 1
          /\ Len(s.claims) > 1
          /\ NumDuplicates(s.claims[1]) = NumDuplicates(s.claims[2])

\* ===================================================== comments_to_tree
\* A parsed JSON value is a record of what the handler asks of it.
\* A taxonomy entry: isdict, whether it is an object; namekind, whether its
\* topicName is absent, a string or another value; subkind, whether its
\* subtopics is absent, a list or another value.
TopicValue(isdict, namekind, subkind, subtopics) ==
    [isdict |-> isdict,
     namekind |-> namekind,
     topicName |-> IF namekind = "str" THEN "Pets" ELSE "",
     subkind |-> subkind,
     subtopics |-> subtopics]

SubtopicValue(name, description) ==
    [subtopicName |-> name, subtopicShortDescription |-> description]

SubtopicLists ==
    {<<>>,
     <<SubtopicValue(<<"Cats">>, <<"about cats">>)>>,
     <<SubtopicValue(<<"Cats">>, <<"about cats">>),
       SubtopicValue(<<"Dogs">>, <<"about dogs">>)>>}

TopicValues ==
    {TopicValue(FALSE, "absent", "absent", <<>>)}
    \cup {TopicValue(TRUE, nk, sk, <<>>) :
              nk \in {"absent", "str", "other"}, sk \in {"absent", "other"}}
    \cup {TopicValue(TRUE, nk, "list", subs) :
              nk \in {"absent", "str", "other"}, subs \in SubtopicLists}

RECURSIVE TaxonomyLists(_)
TaxonomyLists(n) ==
    IF n = 0 THEN {<<>>}
    ELSE TaxonomyLists(n - 1)
         \cup {Append(t, v) : t \in {x \in TaxonomyLists(n - 1) : Len(x) = n - 1},
                              v \in TopicValues}

\* The object under normalization: taxkind, whether its taxonomy is absent,
\* a list or another value.
TreeValue(taxkind, taxonomy) == [taxkind |-> taxkind, taxonomy |-> taxonomy]

\* What extract_json_from_response gives: it raises, or returns a value
\* that is an object or not.
ContentTrees ==
    {[kind |-> "raise", tree |-> TreeValue("absent", <<>>)],
     [kind |-> "other", tree |-> TreeValue("absent", <<>>)],
     [kind |-> "dict", tree |-> TreeValue("absent", <<>>)],
     [kind |-> "dict", tree |-> TreeValue("other", <<>>)]}
    \cup {[kind |-> "dict", tree |-> TreeValue("list", t)] : t \in TaxonomyLists(MaxTopics)}

\* str.lower() of the topic names in use.
Lower(name) ==
    CASE name = "Pets" -> "pets"
      [] name = "Unknown Topic" -> "unknown topic"

\* topic.get("topicName", "Unknown Topic")
topic_name(topic) == IF topic.namekind = "absent" THEN "Unknown Topic" ELSE topic.topicName

\* The default subtopic of a topic without a subtopics list.
DefaultSubtopics(topic) ==
    <<SubtopicValue(<<"General ", topic_name(topic)>>,
                    <<"General aspects of ", Lower(topic_name(topic))>>)>>

NeedsSubtopics(topic) == topic.subkind # "list"

\* extract_json_from_response and the checks of the tree and its taxonomy.
ParseTree ==
    /\ pc = "parse"
    /\ IF content_tree.kind = "raise"
       THEN \* except: tree = {}
            /\ tree' = TreeValue("absent", <<>>)
            /\ pc' = "return"
       ELSE /\ tree' = IF content_tree.kind = "dict" /\ content_tree.tree.taxkind = "list"
                       THEN content_tree.tree
                       ELSE TreeValue("list", <<>>)
            /\ pc' = "topics"
    /\ topic_i' = 1
    /\ UNCHANGED <<content_tree, data>>
    /\ UNCHANGED <<vars2, vars3, vars4, vars5>>

\* One turn of the loop over tree["taxonomy"].
NormalizeTopic ==
    /\ pc = "topics"
    /\ topic_i <= Len(tree.taxonomy)
    /\ LET topic == tree.taxonomy[topic_i]
       IN  IF topic.isdict /\ NeedsSubtopics(topic)
           THEN IF topic.namekind = "other"
                THEN \* topic_name.lower() raises; except: tree = {}
                     /\ tree' = TreeValue("absent", <<>>)
                     /\ pc' = "return"
                     /\ UNCHANGED topic_i
                ELSE /\ tree' = [tree EXCEPT !.taxonomy[topic_i] =
                                    [topic EXCEPT !.subkind = "list",
                                                  !.subtopics = DefaultSubtopics(topic)]]
                     /\ topic_i' = topic_i + 1
                     /\ pc' = pc
           ELSE /\ topic_i' = topic_i + 1
                /\ UNCHANGED <<tree, pc>>
    /\ UNCHANGED <<content_tree, data>>
    /\ UNCHANGED <<vars2, vars3, vars4, vars5>>

\* return {"data": tree.get("taxonomy", []), ...}
ReturnTree ==
    /\ \/ pc = "return"
       \/ pc = "topics" /\ topic_i > Len(tree.taxonomy)
    /\ data' = IF tree.taxkind = "list" THEN tree.taxonomy ELSE <<>>
    /\ pc' = "done"
    /\ UNCHANGED <<content_tree, tree, topic_i>>
    /\ UNCHANGED <<vars2, vars3, vars4, vars5>>

InitTree ==
    /\ pc = "parse"
    /\ content_tree \in ContentTrees
    /\ tree = <<>>
    /\ topic_i = 0
    /\ data = <<>>
    /\ Idle2 /\ Idle3 /\ Idle4 /\ Idle5

NextTree == ParseTree \/ NormalizeTopic \/ ReturnTree

SpecTree == InitTree /\ [][NextTree]_vars

\* C4: taxonomy completeness. Every topic object of the returned data has a
\* subtopics list of length at least 1, and a topic whose subtopics was
\* missing, not a list or an empty list has the one subtopic "General " +
\* topicName.
C4_TaxonomyCompleteness ==
    pc = "done" =>
        \A i \in DOMAIN data :
          data[i].isdict =>
            /\ data[i].subkind = "list"
            /\ Len(data[i].subtopics) >= 1
            /\ LET given == content_tree.tree.taxonomy[i]
               IN  (given.subkind # "list" \/ given.subtopics = <<>>) =>
                       data[i].subtopics[1].subtopicName
                           = <<"General ", topic_name(given)>>

\* ================================================ all_comments_to_claims
\* The taxonomies of the requests explored: a topic is a dict with a
\* topicName and, unless the key is missing, a list of subtopics.
Subtopic(name) == [subtopicName |-> name]
Topic(name, subtopics) == [topicName |-> name, subtopics |-> subtopics]

Taxonomies ==
    {<<>>,
     <<Topic("t1", <<Subtopic("s1"), Subtopic("s2")>>)>>,
     <<Topic("t1", <<Subtopic("s1")>>), Topic("t2", <<Subtopic("s2"), Subtopic("s3")>>)>>,
     <<[topicName |-> "t1"], Topic("t2", <<Subtopic("s2")>>)>>,
     <<Topic("t1", <<>>), Topic("t2", <<Subtopic("s2")>>)>>}

\* A comment: comment_is_meaningful(comment.text) is its meaningful field.
Comment(id, speaker, meaningful) == [id |-> id, speaker |-> speaker, meaningful |-> meaningful]

CommentLists ==
    {<<>>,
     <<Comment("c1", "a", TRUE)>>,
     <<Comment("c1", "a", TRUE), Comment("c2", "b", TRUE)>>,
     <<Comment("c1", "a", TRUE), Comment("c2", "b", FALSE), Comment("c3", "b", TRUE)>>}

\* The claim objects of a model response: claim text k of the response,
\* with or without a topicName and a subtopicName.
ExtractedClaims(k) ==
    LET base == {[claim |-> k]}
        withTopic == base \cup {WithField(c, "topicName", t) : c \in base, t \in {"t1", "tx"}}
    IN  withTopic \cup {WithField(c, "subtopicName", n) : c \in withTopic, n \in {"s1", "sx"}}

RECURSIVE ExtractedLists(_)
ExtractedLists(n) ==
    IF n = 0 THEN {<<>>}
    ELSE {Append(p, c) : p \in ExtractedLists(n - 1), c \in ExtractedClaims(n - 1)}

\* usage.total_tokens of one call.
CallTokens == {1, 2}

\* claim.update({"commentId": comment.id, "speaker": comment.speaker})
Update(claim, comment) ==
    WithField(WithField(claim, "commentId", comment.id), "speaker", comment.speaker)

InComments == pc = "comments" /\ comment_i <= Len(comments)
comment == comments[comment_i]

\* A meaningful comment whose response holds a list of claim objects.
ExtractClaims ==
    /\ InComments
    /\ comment.meaningful
    /\ \E n \in 0..(MaxExtracted - Len(comms_to_claims)) :
          \E claims \in ExtractedLists(n) :
              comms_to_claims' =
                  comms_to_claims \o [j \in DOMAIN claims |-> Update(claims[j], comment)]
    /\ \E total_tokens \in CallTokens :
          /\ TK_2_TOT' = TK_2_TOT + total_tokens
          /\ issued_tokens' = issued_tokens + total_tokens
    /\ comment_i' = comment_i + 1
    /\ UNCHANGED <<pc, req_tree, comments, claim_i, node_counts, cover_i>>
    /\ UNCHANGED <<vars1, vars3, vars4, vars5>>

\* A comment that is not meaningful: no call, continue.
SkipComment ==
    /\ InComments
    /\ ~comment.meaningful
    /\ comment_i' = comment_i + 1
    /\ UNCHANGED <<pc, req_tree, comments, comms_to_claims, claim_i, node_counts, cover_i,
                   usage2>>
    /\ UNCHANGED <<vars1, vars3, vars4, vars5>>

\* A meaningful comment whose response holds claims that are not a list of
\* objects: claim.update raises and the except branch continues, before
\* the usage of the call is added.
DiscardClaims ==
    /\ InComments
    /\ comment.meaningful
    /\ \E total_tokens \in CallTokens : issued_tokens' = issued_tokens + total_tokens
    /\ comment_i' = comment_i + 1
    /\ UNCHANGED <<pc, req_tree, comments, comms_to_claims, claim_i, node_counts, cover_i,
                   TK_2_TOT>>
    /\ UNCHANGED <<vars1, vars3, vars4, vars5>>

EndComments ==
    /\ pc = "comments"
    /\ comment_i > Len(comments)
    /\ pc' = "place"
    /\ claim_i' = 1
    /\ UNCHANGED <<req_tree, comments, comment_i, comms_to_claims, node_counts, cover_i,
                   usage2>>
    /\ UNCHANGED <<vars1, vars3, vars4, vars5>>

taxonomy == req_tree.taxonomy

\* A default placement that never looks at the first topic's subtopics.
WithGeneralSubtopic(claim) ==
    WithField(WithField(claim, "topicName", taxonomy[1].topicName),
              "subtopicName", "General")

\* The claim after the default placement of a claim without a topicName.
WithDefaultTopic(claim) ==
    WithField(WithField(claim, "topicName", taxonomy[1].topicName),
              "subtopicName",
              IF "subtopics" \in DOMAIN taxonomy[1] /\ Len(taxonomy[1].subtopics) > 0
              THEN taxonomy[1].subtopics[1].subtopicName
              ELSE "General")

EmptyBucket == [total |-> 0, claims |-> <<>>, speakers |-> {}]
FirstBucket(claim) == [total |-> 1, claims |-> <<claim>>, speakers |-> {claim.speaker}]

\* A count that puts the claim in front of the claims of an existing bucket.
CountedInFront(nc, claim) ==
    LET t == claim.topicName
    IN  IF t \in DOMAIN nc
        THEN LET topic == [nc[t] EXCEPT !.total = @ + 1,
                                        !.speakers = @ \cup {claim.speaker}]
             IN  IF "subtopicName" \in DOMAIN claim
                 THEN LET n == claim.subtopicName
                          bucket ==
                              IF n \in DOMAIN topic.subtopics
                              THEN [total |-> topic.subtopics[n].total + 1,
                                    claims |-> <<claim>> \o topic.subtopics[n].claims,
                                    speakers |-> topic.subtopics[n].speakers
                                                    \cup {claim.speaker}]
                              ELSE FirstBucket(claim)
                      IN  DictPut(nc, t, [topic EXCEPT !.subtopics = DictPut(@, n, bucket)])
                 ELSE DictPut(nc, t, topic)
        ELSE DictPut(nc, t,
                     [total |-> 1,
                      speakers |-> {claim.speaker},
                      subtopics |-> DictPut(<<>>, claim.subtopicName, FirstBucket(claim))])

\* The counts after a claim with a topicName is counted; the claim of a new
\* topic has a subtopicName.
Counted(nc, claim) ==
    LET t == claim.topicName
    IN  IF t \in DOMAIN nc
        THEN LET topic == [nc[t] EXCEPT !.total = @ + 1,
                                        !.speakers = @ \cup {claim.speaker}]
             IN  IF "subtopicName" \in DOMAIN claim
                 THEN LET n == claim.subtopicName
                          bucket ==
                              IF n \in DOMAIN topic.subtopics
                              THEN [total |-> topic.subtopics[n].total + 1,
                                    claims |-> Append(topic.subtopics[n].claims, claim),
                                    speakers |-> topic.subtopics[n].speakers
                                                    \cup {claim.speaker}]
                              ELSE FirstBucket(claim)
                      IN  DictPut(nc, t, [topic EXCEPT !.subtopics = DictPut(@, n, bucket)])
                 ELSE DictPut(nc, t, topic)
        ELSE DictPut(nc, t,
                     [total |-> 1,
                      speakers |-> {claim.speaker},
                      subtopics |-> DictPut(<<>>, claim.subtopicName, FirstBucket(claim))])

\* One turn of the loop that counts the claims in each subtopic.
PlaceClaim ==
    /\ pc = "place"
    /\ claim_i <= Len(comms_to_claims)
    /\ LET given == comms_to_claims[claim_i]
           unassigned == "topicName" \notin DOMAIN given
       IN  IF unassigned /\ Len(taxonomy) = 0
           THEN \* continue
                /\ claim_i' = claim_i + 1
                /\ UNCHANGED <<pc, comms_to_claims, node_counts>>
           ELSE LET claim == IF unassigned THEN WithDefaultTopic(given) ELSE given
                IN  IF /\ claim.topicName \notin DOMAIN node_counts
                       /\ "subtopicName" \notin DOMAIN claim
                    THEN \* claim["subtopicName"] raises KeyError
                         /\ pc' = "raised"
                         /\ UNCHANGED <<claim_i, comms_to_claims, node_counts>>
                    ELSE /\ node_counts' = Counted(node_counts, claim)
                         /\ comms_to_claims' = [comms_to_claims EXCEPT ![claim_i] = claim]
                         /\ claim_i' = claim_i + 1
                         /\ pc' = pc
    /\ UNCHANGED <<req_tree, comments, comment_i, cover_i, usage2>>
    /\ UNCHANGED <<vars1, vars3, vars4, vars5>>

EndPlace ==
    /\ pc = "place"
    /\ claim_i > Len(comms_to_claims)
    /\ pc' = "cover"
    /\ cover_i' = 1
    /\ UNCHANGED <<req_tree, comments, comment_i, comms_to_claims, claim_i, node_counts,
                   usage2>>
    /\ UNCHANGED <<vars1, vars3, vars4, vars5>>

\* The loop over topic["subtopics"], from position j on.
RECURSIVE CoverSubtopics(_, _, _)
CoverSubtopics(nc, topic, j) ==
    IF j > Len(topic.subtopics) THEN nc
    ELSE LET t == topic.topicName
             n == topic.subtopics[j].subtopicName
         IN  CoverSubtopics(
                 IF t \in DOMAIN nc
                 THEN IF n \notin DOMAIN nc[t].subtopics
                      THEN DictPut(nc, t, [nc[t] EXCEPT !.subtopics = DictPut(@, n, EmptyBucket)])
                      ELSE nc
                 ELSE DictPut(nc, t, [total |-> 0,
                                      speakers |-> {},
                                      subtopics |-> DictPut(<<>>, "None", EmptyBucket)]),
                 topic, j + 1)

\* One turn of the loop that checks for empty topics and subtopics.
CoverTopic ==
    /\ pc = "cover"
    /\ cover_i <= Len(taxonomy)
    /\ node_counts' =
          IF "subtopics" \in DOMAIN taxonomy[cover_i]
          THEN CoverSubtopics(node_counts, taxonomy[cover_i], 1)
          ELSE node_counts
    /\ cover_i' = cover_i + 1
    /\ UNCHANGED <<pc, req_tree, comments, comment_i, comms_to_claims, claim_i, usage2>>
    /\ UNCHANGED <<vars1, vars3, vars4, vars5>>

ReturnClaims ==
    /\ pc = "cover"
    /\ cover_i > Len(taxonomy)
    /\ pc' = "done"
    /\ UNCHANGED vars2
    /\ UNCHANGED <<vars1, vars3, vars4, vars5>>

InitClaims ==
    /\ pc = "comments"
    /\ req_tree \in {[taxonomy |-> t] : t \in Taxonomies}
    /\ comments \in CommentLists
    /\ comment_i = 1
    /\ comms_to_claims = <<>>
    /\ claim_i = 0
    /\ node_counts = <<>>
    /\ cover_i = 0
    /\ TK_2_TOT = 0
    /\ issued_tokens = 0
    /\ Idle1 /\ Idle3 /\ Idle4 /\ Idle5

NextClaims ==
    \/ ExtractClaims
    \/ SkipComment
    \/ DiscardClaims
    \/ EndComments
    \/ PlaceClaim
    \/ EndPlace
    \/ CoverTopic
    \/ ReturnClaims

SpecClaims == InitClaims /\ [][NextClaims]_vars

\* C3: tree coverage. In the returned ClaimTree every topicName of the
\* input taxonomy is a key, and for every (topic, subtopic) pair of the
\* input taxonomy the bucket exists.
C3_TreeCoverage ==
    pc = "done" /\ cover_i > 0 =>
        \A i \in DOMAIN taxonomy :
            /\ taxonomy[i].topicName \in DOMAIN node_counts
            /\ "subtopics" \in DOMAIN taxonomy[i] =>
                  \A j \in DOMAIN taxonomy[i].subtopics :
                      taxonomy[i].subtopics[j].subtopicName
                          \in DOMAIN node_counts[taxonomy[i].topicName].subtopics

\* C12: a schema mismatch in stage 2 never aborts the stage. A claim object
\* lacking an expected field (topicName present but subtopicName absent, for
\* example) is normalized or skipped: placing it does not raise, and the
\* loop goes on to the next claim.
C12_SchemaMismatchNeverAborts ==
    [][PlaceClaim => (pc' = "place" /\ claim_i' = claim_i + 1)]_vars

\* C13: token accounting. The usage a stage returns is the sum of the
\* token counts of every call the stage issued during the request,
\* including the calls whose response was discarded afterwards.
C13_TokenAccounting ==
    pc = "done" /\ cover_i > 0 => TK_2_TOT = issued_tokens

TaxonomyTopicNames == {taxonomy[i].topicName : i \in DOMAIN taxonomy}

\* The claims placed under a topic key of the returned tree.
PlacedUnder(t) ==
    UNION {Range(node_counts[t].subtopics[n].claims) : n \in DOMAIN node_counts[t].subtopics}

\* C14: claim topic validity. Every claim placed in the returned ClaimTree
\* sits under a topic key that is the name of a topic of the input
\* taxonomy: a topicName that matches no taxonomy topic creates no key.
C14_ClaimTopicValidity ==
    pc = "done" /\ cover_i > 0 =>
        \A t \in DOMAIN node_counts :
            PlacedUnder(t) # {} => t \in TaxonomyTopicNames

\* The sum of f over the keys of a dict.
RECURSIVE SumOver(_, _)
SumOver(keys, f) ==
    IF keys = {} THEN 0
    ELSE LET k == CHOOSE x \in keys : TRUE
         IN  f[k] + SumOver(keys \ {k}, f)

\* C15: aggregation consistency. For every topic bucket of the returned
\* ClaimTree, total is the sum of the totals of its subtopic buckets and
\* speakers is the union of its subtopic buckets' speakers.
C15_AggregationConsistency ==
    pc = "done" /\ cover_i > 0 =>
        \A t \in DOMAIN node_counts :
            LET subtopics == node_counts[t].subtopics
            IN  /\ node_counts[t].total =
                      SumOver(DOMAIN subtopics, [n \in DOMAIN subtopics |-> subtopics[n].total])
                /\ node_counts[t].speakers =
                      UNION {subtopics[n].speakers : n \in DOMAIN subtopics}

\* The subtopic name the default placement uses: the first subtopic of the
\* first topic, or "General" when that topic has none.
DefaultSubtopicName ==
    IF "subtopics" \in DOMAIN taxonomy[1] /\ Len(taxonomy[1].subtopics) > 0
    THEN taxonomy[1].subtopics[1].subtopicName
    ELSE "General"

\* C25: default placement of unassigned claims. Placing a claim that lacks
\* topicName gives it the first taxonomy topic's name and that topic's first
\* subtopic name, or "General" when the first topic has no subtopics, and
\* counts it in that bucket and in the topic; with a taxonomy without topics
\* the claim is dropped and no count changes.
C25_DefaultPlacement ==
    [][(PlaceClaim /\ "topicName" \notin DOMAIN comms_to_claims[claim_i])
          => IF Len(taxonomy) = 0
             THEN /\ pc' = "place"
                  /\ node_counts' = node_counts
                  /\ comms_to_claims' = comms_to_claims
             ELSE LET t == taxonomy[1].topicName
                      n == DefaultSubtopicName
                      given == comms_to_claims[claim_i]
                  IN  /\ pc' = "place"
                      /\ t \in DOMAIN node_counts'
                      /\ n \in DOMAIN node_counts'[t].subtopics
                      /\ LET bucket == node_counts'[t].subtopics[n]
                             placed == bucket.claims[Len(bucket.claims)]
                         IN  /\ placed.claim = given.claim
                             /\ placed.commentId = given.commentId
                             /\ placed.topicName = t
                             /\ placed.subtopicName = n
                             /\ bucket.total =
                                   1 + (IF /\ t \in DOMAIN node_counts
                                           /\ n \in DOMAIN node_counts[t].subtopics
                                        THEN node_counts[t].subtopics[n].total
                                        ELSE 0)
                      /\ node_counts'[t].total =
                            1 + (IF t \in DOMAIN node_counts
                                 THEN node_counts[t].total ELSE 0)]_vars

\* Two claims without topicName were placed in the bucket "General" of a
\* first topic without subtopics, which only the default placement names.
C25_Witness ==
    /\ pc = "place"
    /\ claim_i > Len(comms_to_claims)
    /\ Len(taxonomy) > 0
    /\ DefaultSubtopicName = "General"
    /\ taxonomy[1].topicName \in DOMAIN node_counts
    /\ "General" \in DOMAIN node_counts[taxonomy[1].topicName].subtopics
    /\ node_counts[taxonomy[1].topicName].subtopics["General"].total = 2

\* The position of the comment a placed claim came from.
CommentPosition(claim) ==
    Min({i \in DOMAIN comments : comments[i].id = claim.commentId})

\* C26: claim order within a bucket. In the returned ClaimTree the claims of
\* every subtopic bucket are in the order of their comments in the request,
\* and the claims of one comment are in the order of the model response.
C26_BucketOrder ==
    pc = "done" /\ cover_i > 0 =>
        \A t \in DOMAIN node_counts :
            \A n \in DOMAIN node_counts[t].subtopics :
                LET claims == node_counts[t].subtopics[n].claims
                IN  \A i, j \in DOMAIN claims :
                       i < j =>
                          \/ CommentPosition(claims[i]) < CommentPosition(claims[j])
                          \/ /\ CommentPosition(claims[i]) = CommentPosition(claims[j])
                             /\ claims[i].claim < claims[j].claim

\* A returned tree with a bucket holding claims of two comments.
C26_Witness ==
    /\ pc = "done"
    /\ cover_i > 0
    /\ \E t \in DOMAIN node_counts :
          \E n \in DOMAIN node_counts[t].subtopics :
              LET claims == node_counts[t].subtopics[n].claims
              IN  /\ Len(claims) = 2
                  /\ CommentPosition(claims[1]) < CommentPosition(claims[2])

\* ======================================== cruxes_from_tree: scores, ranking
\* Scores and matrix cells are counted in halves: 2 stands for 1, 1 for 0.5.
AgreeScore == 2
DisagreeScore == 1
UnknownScore == 0
HalfPoint == 1
FullPoint == 2
\* The cap on the default K.
MaxK == 10

\* The speakers in the order sorted() gives them, and str(i) for i < 10.
SpeakerOrder == <<"a", "b", "c", "d", "e", "f", "g", "h", "i", "j">>
Digits == <<"0", "1", "2", "3", "4", "5", "6", "7", "8", "9">>
CruxTexts == <<"k1", "k2", "k3", "k4", "k5">>

\* sorted(speakers): the names of the set in alphabetical order.
SortedSpeakers(speakers) == SelectSeq(SpeakerOrder, LAMBDA n : n \in speakers)

\* full_speaker_map, from the set of speakers the tree's claims name.
SpeakerMapOf(speakers) ==
    LET speaker_list == SortedSpeakers(speakers)
    IN  [n \in speakers |->
            Digits[(CHOOSE i \in DOMAIN speaker_list : speaker_list[i] = n)]]

\* speaker_map[sl] + ":" + sl
labeled_speaker(sl) == <<speaker_map[sl], sl>>

speaker_labels == SortedSpeakers(DOMAIN speaker_map)

\* The score of one speaker for one row of crux_claims.
ClaimScore(row, sl) ==
    IF labeled_speaker(sl) \in Range(row[2]) THEN AgreeScore
    ELSE IF labeled_speaker(sl) \in Range(row[3]) THEN DisagreeScore
    ELSE UnknownScore

\* cm = [row[0]]; cm.extend(claim_scores)
ScoreRow(row) ==
    <<row[1]>> \o [j \in DOMAIN speaker_labels |-> ClaimScore(row, speaker_labels[j])]

\* ------------------------------------------------------ controversy_matrix
Zeros(n) == [b \in 1..n |-> [a \in 1..n |-> 0]]

AddUpper(cm, i, j, v) == [cm EXCEPT ![i][j] = @ + v]

\* cm[i][j] += v; cm[j][i] += v
AddBoth(cm, i, j, v) == [cm EXCEPT ![i][j] = @ + v, ![j][i] = @ + v]

AccumulateFull(cm, i, j, score, other_score) ==
    IF score # other_score THEN AddBoth(cm, i, j, FullPoint) ELSE cm

\* The body of the innermost loop.
Accumulate(cm, i, j, score, other_score) ==
    IF score # other_score
    THEN IF score = 0 \/ other_score = 0
         THEN AddBoth(cm, i, j, HalfPoint)
         ELSE AddBoth(cm, i, j, FullPoint)
    ELSE cm

\* for other_index, other_score in enumerate(other_scores), from position k
RECURSIVE OtherLoop(_, _, _, _, _, _)
OtherLoop(cm, table, claim_index, score, other_scores, k) ==
    IF k > Len(other_scores) THEN cm
    ELSE OtherLoop(Accumulate(cm, claim_index, claim_index + k, score, other_scores[k]),
                   table, claim_index, score, other_scores, k + 1)

\* for score_index, score in enumerate(per_speaker_scores), from position j
RECURSIVE ScoreLoop(_, _, _, _)
ScoreLoop(cm, table, claim_index, j) ==
    LET per_speaker_scores == Tail(table[claim_index])
    IN  IF j > Len(per_speaker_scores) THEN cm
        ELSE LET other_scores ==
                     [k \in 1..(Len(table) - claim_index) |-> table[claim_index + k][j + 1]]
             IN  ScoreLoop(OtherLoop(cm, table, claim_index, per_speaker_scores[j],
                                     other_scores, 1),
                           table, claim_index, j + 1)

\* for claim_index, row in enumerate(cont_mat), from position i
RECURSIVE ClaimLoop(_, _, _)
ClaimLoop(cm, table, i) ==
    IF i > Len(table) THEN cm
    ELSE ClaimLoop(ScoreLoop(cm, table, i, 1), table, i + 1)

controversy_matrix(table) == ClaimLoop(Zeros(Len(table)), table, 1)

\* ------------------------------------------------------------ top_k_cruxes
\* math.ceil(math.sqrt(n))
CeilSqrt(n) == CHOOSE k \in 0..n : k * k >= n /\ \A j \in 0..(k - 1) : j * j < n

KeepAll(cruxes, k) == IF k = 0 THEN Len(cruxes) ELSE k

\* K
TopK(cruxes, k) == IF k = 0 THEN Min({CeilSqrt(Len(cruxes)), MaxK}) ELSE k

\* A slice that keeps the end of the list instead of its start.
SliceFromEnd(seq, K) ==
    IF K >= 0 THEN SubSeq(seq, Len(seq) - Min({K, Len(seq)}) + 1, Len(seq))
    ELSE SubSeq(seq, 1 - K, Len(seq))

\* seq[:K]
SliceTo(seq, K) ==
    IF K >= 0 THEN SubSeq(seq, 1, Min({K, Len(seq)}))
    ELSE SubSeq(seq, 1, Len(seq) + K)

\* scores: [cont_mat[x][y], x, y] for x < y, rows first.
RECURSIVE UpperPairs(_, _, _)
UpperPairs(n, x, y) ==
    IF x > n THEN <<>>
    ELSE IF y > n THEN UpperPairs(n, x + 1, x + 2)
    ELSE <<(<<x, y>>)>> \o UpperPairs(n, x, y + 1)

top_k_cruxes(matrix, cruxes, k) ==
    LET pairs == UpperPairs(Len(matrix), 1, 2)
        scores == [p \in DOMAIN pairs |->
                      <<matrix[pairs[p][1]][pairs[p][2]], pairs[p][1], pairs[p][2]>>]
        all_scored_cruxes == SortedReverse(scores, [p \in DOMAIN scores |-> scores[p][1]])
        top == SliceTo(all_scored_cruxes, TopK(cruxes, k))
    IN  [p \in DOMAIN top |->
            [score |-> top[p][1], cruxA |-> cruxes[top[p][2]], cruxB |-> cruxes[top[p][3]]]]

crux_claims_only == [i \in DOMAIN crux_claims |-> crux_claims[i][1]]

\* ------------------------------------------- the steps after the crux loop
ScoreCruxes ==
    /\ pc = "scores"
    /\ cont_mat' = [i \in DOMAIN crux_claims |-> ScoreRow(crux_claims[i])]
    /\ pc' = "matrix"
    /\ UNCHANGED <<crux_tree, top_k, crux_ti, crux_si, speaker_map, llm_response, llm_calls, crux_claims,
                   full_controversy_matrix, top_cruxes>>
    /\ UNCHANGED <<vars1, vars2, vars3, vars5>>

ComputeMatrix ==
    /\ pc = "matrix"
    /\ full_controversy_matrix' = controversy_matrix(cont_mat)
    /\ pc' = "top"
    /\ UNCHANGED <<crux_tree, top_k, crux_ti, crux_si, speaker_map, llm_response, llm_calls, crux_claims,
                   cont_mat, top_cruxes>>
    /\ UNCHANGED <<vars1, vars2, vars3, vars5>>

ReturnCruxes ==
    /\ pc = "top"
    /\ top_cruxes' = top_k_cruxes(full_controversy_matrix, crux_claims_only, top_k)
    /\ pc' = "done"
    /\ UNCHANGED <<crux_tree, top_k, crux_ti, crux_si, speaker_map, llm_response, llm_calls, crux_claims,
                   cont_mat, full_controversy_matrix>>
    /\ UNCHANGED <<vars1, vars2, vars3, vars5>>

\* The rows crux_claims can hold for a speaker map: every speaker agrees,
\* disagrees or is not named.
Opinions == {"agree", "disagree", "none"}

CruxRow(text, opinion) ==
    LET named(o) == SelectSeq([j \in DOMAIN speaker_labels |->
                                  <<Digits[j], speaker_labels[j], opinion[speaker_labels[j]]>>],
                              LAMBDA e : e[3] = o)
        labels(o) == [j \in DOMAIN named(o) |-> <<named(o)[j][1], named(o)[j][2]>>]
    IN  <<text, labels("agree"), labels("disagree"), "N/A">>

\* The cruxClaim texts of r rows: the model may give a later subtopic the
\* crux text it gave the first one.
RowTexts(r) ==
    {[i \in 1..r |-> IF i \in again THEN CruxTexts[1] ELSE CruxTexts[i]] :
        again \in SUBSET (2..r)}

\* The tables with r rows: a crux needs two speakers.
TableShapes ==
    {<<0, s>> : s \in 0..2}
        \cup {<<r, s>> \in (1..MaxCells) \X (2..MaxCells) : r * s <= MaxCells}

\* The state at the end of the crux loop.
InitRank ==
    /\ pc = "scores"
    /\ crux_tree = <<>>
    /\ crux_ti = 0
    /\ crux_si = 0
    /\ top_k \in -1..MaxTopK
    /\ \E shape \in TableShapes :
          /\ speaker_map = SpeakerMapOf({SpeakerOrder[j] : j \in 1..shape[2]})
          /\ \E opinions \in [1..shape[1] -> [DOMAIN speaker_map -> Opinions]] :
                \E texts \in RowTexts(shape[1]) :
                   crux_claims = [i \in 1..shape[1] |-> CruxRow(texts[i], opinions[i])]
    /\ llm_response = <<>>
    /\ llm_calls = 0
    /\ cont_mat = <<>>
    /\ full_controversy_matrix = <<>>
    /\ top_cruxes = <<>>
    /\ Idle1 /\ Idle2 /\ Idle3 /\ Idle5

NextRank == ScoreCruxes \/ ComputeMatrix \/ ReturnCruxes

SpecRank == InitRank /\ [][NextRank]_vars

MatrixComputed == pc \in {"top", "done"}
NumCruxes == Len(crux_claims)

\* C6: matrix symmetry. The matrix controversy_matrix returns is square
\* with one row per crux, M[i][j] = M[j][i] for all i, j, and M[i][i] = 0.
C6_MatrixSymmetry ==
    MatrixComputed =>
        LET M == full_controversy_matrix
        IN  /\ Len(M) = Len(cont_mat)
            /\ \A i \in DOMAIN M :
                  /\ Len(M[i]) = Len(cont_mat)
                  /\ M[i][i] = 0
                  /\ \A j \in DOMAIN M : M[i][j] = M[j][i]

\* Two cruxes on which a speaker holds different opinions: a non-zero cell.
C6_Witness ==
    /\ MatrixComputed
    /\ NumCruxes = 3
    /\ full_controversy_matrix[1][3] = 3
    /\ full_controversy_matrix[3][1] = 3
    /\ full_controversy_matrix[2][3] = 0

\* The contribution of one speaker to a pair of cruxes, in halves.
Contribution(a, b) ==
    IF a = b THEN 0 ELSE IF a = 0 \/ b = 0 THEN 1 ELSE 2

NumPairs == (NumCruxes * (NumCruxes - 1)) \div 2

UpperCells == {c \in (1..NumCruxes) \X (1..NumCruxes) : c[1] < c[2]}

\* C27: top-K selection. topCruxes is the first K of the upper-triangle
\* cells (i < j) of the controversy matrix sorted by score descending: its
\* entries are distinct cells, each with the score of its cell and cruxA and
\* cruxB the cruxes i and j of the cell; the scores are non-increasing; no
\* omitted cell has a higher score than a returned one; and for K >= 0 there
\* are min(K, number of cells) entries.
C27_TopKSelection ==
    pc = "done" =>
        /\ \E cell \in [DOMAIN top_cruxes -> UpperCells] :
              /\ \A p, q \in DOMAIN top_cruxes : p # q => cell[p] # cell[q]
              /\ \A p \in DOMAIN top_cruxes :
                    /\ top_cruxes[p].score
                          = full_controversy_matrix[cell[p][1]][cell[p][2]]
                    /\ top_cruxes[p].cruxA = crux_claims[cell[p][1]][1]
                    /\ top_cruxes[p].cruxB = crux_claims[cell[p][2]][1]
              /\ \A o \in UpperCells \ Range(cell) :
                    \A p \in DOMAIN top_cruxes :
                       full_controversy_matrix[o[1]][o[2]] <= top_cruxes[p].score
        /\ \A p \in 1..(Len(top_cruxes) - 1) :
              top_cruxes[p].score >= top_cruxes[p + 1].score
        /\ top_k >= 0 =>
              Len(top_cruxes) =
                 Min({IF top_k = 0 THEN Min({CeilSqrt(NumCruxes), 10}) ELSE top_k,
                      Cardinality(UpperCells)})

\* Three cruxes, two of them with the same text; the two cells returned are
\* the last two of the matrix, the second with the higher score first.
C27_Witness ==
    /\ pc = "done"
    /\ NumCruxes = 3
    /\ crux_claims[2][1] = crux_claims[1][1]
    /\ Len(top_cruxes) = 2
    /\ top_cruxes[1].score > top_cruxes[2].score
    /\ top_cruxes[2].score > full_controversy_matrix[1][2]
    /\ top_cruxes[1].score = full_controversy_matrix[2][3]

\* ============================================ cruxes_from_tree: crux loop
\* req.crux_tree: the items (topic, subtopics) of the dict, the subtopics
\* as items (subtopic, claims). A claim has a text and, unless the field is
\* missing, a speaker.
CruxClaimLists ==
    {<<[claim |-> 1, speaker |-> "a"]>>,
     <<[claim |-> 1, speaker |-> "a"], [claim |-> 2, speaker |-> "a"]>>,
     <<[claim |-> 1, speaker |-> "a"], [claim |-> 2, speaker |-> "b"]>>,
     <<[claim |-> 1, speaker |-> "b"], [claim |-> 2, speaker |-> "c"],
       [claim |-> 3, speaker |-> "a"]>>,
     <<[claim |-> 1, speaker |-> "a"], [claim |-> 2]>>}

CruxTreeShapes == {<<>>, <<1>>, <<2>>, <<1, 1>>, <<2, 1>>}

CruxSubtopicItems(n) ==
    {[j \in 1..n |-> <<SubtopicNames[j], claims[j]>>] : claims \in [1..n -> CruxClaimLists]}

CruxTrees ==
    UNION {{[i \in DOMAIN shape |-> <<TopicNames[i], subs[i]>>] :
               subs \in {f \in [DOMAIN shape -> UNION {CruxSubtopicItems(n) : n \in 1..2}] :
                             \A i \in DOMAIN shape : Len(f[i]) = shape[i]}} :
           shape \in CruxTreeShapes}

\* Every claim of the tree, for full_speaker_map.
AllCruxClaims ==
    UNION {UNION {Range(crux_tree[i][2][j][2]) : j \in DOMAIN crux_tree[i][2]} :
           i \in DOMAIN crux_tree}

\* list(speakers): the elements of the set in the order the set's hashing
\* gives, which is any order.
ListsOf(speakers) ==
    {l \in [1..Cardinality(speakers) -> speakers] :
        \A i, j \in DOMAIN l : i # j => l[i] # l[j]}

\* The position of a name in the alphabet.
Rank(n) == CHOOSE i \in DOMAIN SpeakerOrder : SpeakerOrder[i] = n

\* speaker_list.sort()
SortSpeakers(speaker_list) ==
    LET perm == SortPerm([i \in DOMAIN speaker_list |-> 0 - Rank(speaker_list[i])],
                         Len(speaker_list))
    IN  [j \in DOMAIN speaker_list |-> speaker_list[perm[j]]]

\* for i, s in enumerate(speaker_list): speaker_map[s] = str(i)
Enumerate(speaker_list) ==
    [n \in Range(speaker_list) |->
        Digits[(CHOOSE i \in DOMAIN speaker_list : speaker_list[i] = n)]]

UnsortedSpeakerMap(speaker_list) == Enumerate(speaker_list)

\* full_speaker_map, from list(speakers) on.
full_speaker_map(speaker_list) == Enumerate(SortSpeakers(speaker_list))

\* speaker_map = full_speaker_map(req.crux_tree): claim["speaker"] raises
\* KeyError on a claim without a speaker.
StartCruxes ==
    /\ pc = "start"
    /\ IF \A c \in AllCruxClaims : "speaker" \in DOMAIN c
       THEN /\ \E speaker_list \in ListsOf({c.speaker : c \in AllCruxClaims}) :
                  speaker_map' = full_speaker_map(speaker_list)
            /\ pc' = "cruxes"
            /\ crux_ti' = 1
            /\ crux_si' = 1
       ELSE /\ pc' = "raised"
            /\ UNCHANGED <<speaker_map, crux_ti, crux_si>>
    /\ UNCHANGED <<crux_tree, top_k, llm_response, llm_calls, crux_claims, cont_mat,
                   full_controversy_matrix, top_cruxes>>
    /\ UNCHANGED <<vars1, vars2, vars3, vars5>>

InCruxLoop == pc = "cruxes" /\ crux_ti <= Len(crux_tree)
crux_subtopics == crux_tree[crux_ti][2]
InCruxSubtopic == InCruxLoop /\ crux_si <= Len(crux_subtopics)
crux_subtopic_claims == crux_subtopics[crux_si][2]

ClaimPositions(claims) == DOMAIN claims

\* speaker_set of cruxes_for_topic.
speaker_set(claims) ==
    {speaker_map[claims[j].speaker] : j \in {k \in DOMAIN claims : "speaker" \in DOMAIN claims[k]}}

\* continue: fewer than 2 claims, or cruxes_for_topic returned None for
\* fewer than 2 speakers.
SkipSubtopic ==
    /\ InCruxSubtopic
    /\ \/ Len(crux_subtopic_claims) < 2
       \/ Cardinality(speaker_set(crux_subtopic_claims)) < 2
    /\ crux_si' = crux_si + 1
    /\ UNCHANGED <<pc, crux_tree, top_k, crux_ti, speaker_map, llm_response, llm_calls, crux_claims,
                   cont_mat, full_controversy_matrix, top_cruxes>>
    /\ UNCHANGED <<vars1, vars2, vars3, vars5>>

\* The crux objects of a model response. An agree or disagree entry is the
\* pieces of the string between its colons.
Crux(text, agree, disagree) ==
    [cruxClaim |-> text, agree |-> agree, disagree |-> disagree, explanation |-> "why"]

CruxObjects(text) ==
    {Crux(text, <<>>, <<>>),
     Crux(text, <<(<<"0">>)>>, <<(<<"1">>)>>),
     Crux(text, <<(<<"0">>), <<"1">>>>, <<>>),
     Crux(text, <<(<<"0">>)>>, <<(<<"0">>), <<"1">>>>),
     Crux(text, <<(<<"1", "claim">>)>>, <<(<<"0", "claim">>)>>),
     Crux(text, <<(<<"9">>)>>, <<>>),
     [cruxClaim |-> text, agree |-> <<(<<"1">>)>>, disagree |-> <<(<<"0">>)>>],
     [cruxClaim |-> text, explanation |-> "why"]}

\* What extract_json_from_response makes of the content: it raises, or
\* returns a list or an object.
Dict(value) == [type |-> "dict", value |-> value]
String(text) == [type |-> "str", text |-> text]

CruxContents(text) ==
    {[kind |-> "unparseable"], [kind |-> "list"]}
        \cup {[kind |-> "dict", value |-> [other |-> "x"]]}
        \cup {[kind |-> "dict", value |-> c] : c \in CruxObjects(text)}
        \cup {[kind |-> "dict", value |-> [crux |-> Dict(c)]] : c \in CruxObjects(text)}
        \cup {[kind |-> "dict", value |-> [crux |-> String("none")]]}

\* crux_obj of cruxes_for_topic.
crux_obj(content) ==
    CASE content.kind = "unparseable" -> [crux |-> String("Error parsing response")]
      [] content.kind = "list" ->
            [crux |-> Dict([cruxClaim |-> "", agree |-> <<>>, disagree |-> <<>>,
                            explanation |-> ""])]
      [] OTHER -> content.value

\* cruxes_for_topic called the model and returned its crux.
CallCruxes ==
    /\ InCruxSubtopic
    /\ Len(crux_subtopic_claims) >= 2
    /\ Cardinality(speaker_set(crux_subtopic_claims)) >= 2
    /\ \E content \in CruxContents(CruxTexts[Len(crux_claims) + 1]) :
          llm_response' = [crux |-> crux_obj(content)]
    /\ llm_calls' = llm_calls + 1
    /\ pc' = "handle"
    /\ UNCHANGED <<crux_tree, top_k, crux_ti, crux_si, speaker_map, crux_claims,
                   cont_mat, full_controversy_matrix, top_cruxes>>
    /\ UNCHANGED <<vars1, vars2, vars3, vars5>>

\* client.chat.completions.create raised.
CallRaises ==
    /\ InCruxSubtopic
    /\ Len(crux_subtopic_claims) >= 2
    /\ Cardinality(speaker_set(crux_subtopic_claims)) >= 2
    /\ pc' = "raised"
    /\ llm_calls' = llm_calls + 1
    /\ UNCHANGED <<crux_tree, top_k, crux_ti, crux_si, speaker_map, llm_response, crux_claims,
                   cont_mat, full_controversy_matrix, top_cruxes>>
    /\ UNCHANGED <<vars1, vars2, vars3, vars5>>

ids_to_speakers == [v \in Range(speaker_map) |-> CHOOSE k \in DOMAIN speaker_map : speaker_map[k] = v]

\* [a.split(":")[0] for a in agree]
SplitIds(entries) == [j \in DOMAIN entries |-> entries[j][1]]

\* [a + ":" + ids_to_speakers[a] for a in agree]
Named(ids) == [j \in DOMAIN ids |-> <<ids[j], ids_to_speakers[ids[j]]>>]

\* The handler's use of the response, from crux_data = llm_response["crux"]
\* to the append to crux_claims.
HandleCrux ==
    /\ pc = "handle"
    /\ LET crux_data == llm_response.crux
           recognized == "crux" \in DOMAIN crux_data \/ "cruxClaim" \in DOMAIN crux_data
           slot == IF "crux" \in DOMAIN crux_data THEN crux_data.crux ELSE Dict(crux_data)
           crux == slot.value
       IN  IF ~recognized
           THEN \* continue
                /\ pc' = "cruxes"
                /\ crux_si' = crux_si + 1
                /\ UNCHANGED crux_claims
           ELSE IF \/ slot.type # "dict"
                   \/ ~({"cruxClaim", "agree", "disagree"} \subseteq DOMAIN crux)
           THEN \* crux["cruxClaim"], crux["agree"], crux["disagree"] raise
                /\ pc' = "raised"
                /\ UNCHANGED <<crux_si, crux_claims>>
           ELSE LET explanation ==
                        IF "explanation" \in DOMAIN crux THEN crux.explanation ELSE "N/A"
                    agree == SplitIds(crux.agree)
                    disagree == SplitIds(crux.disagree)
                IN  IF Range(agree) \cup Range(disagree) \subseteq DOMAIN ids_to_speakers
                    THEN /\ crux_claims' =
                               Append(crux_claims,
                                      <<crux.cruxClaim, Named(agree), Named(disagree),
                                        explanation>>)
                         /\ pc' = "cruxes"
                         /\ crux_si' = crux_si + 1
                    ELSE \* ids_to_speakers[a] raises KeyError
                         /\ pc' = "raised"
                         /\ UNCHANGED <<crux_si, crux_claims>>
    /\ UNCHANGED <<crux_tree, top_k, crux_ti, speaker_map, llm_response, llm_calls,
                   cont_mat, full_controversy_matrix, top_cruxes>>
    /\ UNCHANGED <<vars1, vars2, vars3, vars5>>

NextCruxTopic ==
    /\ InCruxLoop
    /\ crux_si > Len(crux_subtopics)
    /\ crux_ti' = crux_ti + 1
    /\ crux_si' = 1
    /\ UNCHANGED <<pc, crux_tree, top_k, speaker_map, llm_response, llm_calls, crux_claims,
                   cont_mat, full_controversy_matrix, top_cruxes>>
    /\ UNCHANGED <<vars1, vars2, vars3, vars5>>

EndCruxLoop ==
    /\ pc = "cruxes"
    /\ crux_ti > Len(crux_tree)
    /\ pc' = "scores"
    /\ UNCHANGED vars4
    /\ UNCHANGED <<vars1, vars2, vars3, vars5>>

InitCrux ==
    /\ pc = "start"
    /\ crux_tree \in CruxTrees
    /\ top_k \in -1..MaxTopK
    /\ crux_ti = 0
    /\ crux_si = 0
    /\ speaker_map = <<>>
    /\ llm_response = <<>>
    /\ llm_calls = 0
    /\ crux_claims = <<>>
    /\ cont_mat = <<>>
    /\ full_controversy_matrix = <<>>
    /\ top_cruxes = <<>>
    /\ Idle1 /\ Idle2 /\ Idle3 /\ Idle5

NextCrux ==
    \/ StartCruxes
    \/ SkipSubtopic
    \/ CallCruxes
    \/ CallRaises
    \/ HandleCrux
    \/ NextCruxTopic
    \/ EndCruxLoop
    \/ ScoreCruxes
    \/ ComputeMatrix
    \/ ReturnCruxes

SpecCrux == InitCrux /\ [][NextCrux]_vars

\* C10: extraction failure in stage 4 is not propagated. When
\* cruxes_for_topic fell back to its parse-error default for a subtopic,
\* cruxes_from_tree skips that subtopic and raises no error: the loop goes
\* on to the next subtopic with the cruxes it has.
C10_ExtractionFailureSkipped ==
    [][(pc = "handle" /\ llm_response.crux = [crux |-> String("Error parsing response")])
          => (pc' = "cruxes" /\ crux_si' = crux_si + 1 /\ crux_claims' = crux_claims)]_vars

SpeakerMapComputed == pc # "start" /\ \A c \in AllCruxClaims : "speaker" \in DOMAIN c

\* The number a speaker id stands for.
IdNumber(id) == (CHOOSE i \in DOMAIN Digits : Digits[i] = id) - 1

\* C16: the speaker map is a deterministic bijection. full_speaker_map maps
\* the distinct speakers of all claims of the tree, sorted ascending, to
\* "0", "1", ...: distinct speakers get distinct ids, the ids are exactly
\* 0..n-1, and the map is the same whatever order the speakers were
\* collected in.
C16_SpeakerMapBijection ==
    SpeakerMapComputed =>
        LET speakers == {c.speaker : c \in AllCruxClaims}
        IN  /\ DOMAIN speaker_map = speakers
            /\ \A x, y \in speakers : x # y => speaker_map[x] # speaker_map[y]
            /\ {IdNumber(speaker_map[x]) : x \in speakers} = 0..(Cardinality(speakers) - 1)
            /\ \A x, y \in speakers :
                  Rank(x) < Rank(y) => IdNumber(speaker_map[x]) < IdNumber(speaker_map[y])

\* Three speakers whose claims come in the order b, c, a.
C16_Witness ==
    /\ SpeakerMapComputed
    /\ crux_tree # <<>>
    /\ crux_tree[1][2][1][2][1].speaker = "b"
    /\ speaker_map = [a |-> "0", b |-> "1", c |-> "2"]

\* C17: crux row disjointness. In every row of the cruxClaims that
\* cruxes_from_tree returns, no speaker is in both agree and disagree,
\* whatever lists the model returned.
C17_CruxRowDisjointness ==
    pc = "done" =>
        \A i \in DOMAIN crux_claims :
            Range(crux_claims[i][2]) \cap Range(crux_claims[i][3]) = {}

DistinctSpeakers(claims) == {claims[j].speaker : j \in DOMAIN claims}

\* C18: crux skip rule. A subtopic with fewer than 2 claims or fewer than 2
\* distinct speakers produces no crux entry and no call to the model; every
\* other subtopic gets exactly one call.
C18_CruxSkipRule ==
    [][/\ (InCruxSubtopic /\ (pc' # pc \/ crux_si' # crux_si)) =>
            IF \/ Len(crux_subtopic_claims) < 2
               \/ Cardinality(DistinctSpeakers(crux_subtopic_claims)) < 2
            THEN /\ llm_calls' = llm_calls
                 /\ crux_claims' = crux_claims
                 /\ pc' = "cruxes"
                 /\ crux_si' = crux_si + 1
            ELSE /\ llm_calls' = llm_calls + 1
                 /\ crux_si' = crux_si
       /\ pc = "handle" => (llm_calls' = llm_calls /\ (pc' = "cruxes" => crux_si' = crux_si + 1))
      ]_vars

\* Two claims from one speaker: the request returns no crux and made no call.
C18_Witness ==
    /\ pc = "done"
    /\ Len(crux_tree) = 1
    /\ Len(crux_tree[1][2]) = 1
    /\ Len(crux_tree[1][2][1][2]) = 2
    /\ DistinctSpeakers(crux_tree[1][2][1][2]) = {"a"}
    /\ crux_claims = <<>>
    /\ llm_calls = 0

\* ============================================== json_response_parser.py
\* A text is a sequence of tokens. A token is one character (a quote, a
\* backslash, a slash, a brace, a bracket, a colon, a comma, a space, a
\* newline, the letter a, the digit 1) or one of the words the patterns of
\* the parser name (fence for the three backquotes of a code fence, json,
\* claims, taxonomy, </think>, ...).
MaxChars == 5

Whitespace == {" ", "\n"}

Max(S) == CHOOSE x \in S : \A y \in S : x >= y

\* str.rstrip() and str.strip()
rstrip(str) ==
    LET keep == {i \in DOMAIN str : str[i] \notin Whitespace}
    IN  IF keep = {} THEN <<>> ELSE SubSeq(str, 1, Max(keep))

strip(str) ==
    LET keep == {i \in DOMAIN str : str[i] \notin Whitespace}
    IN  IF keep = {} THEN <<>> ELSE SubSeq(str, Min(keep), Max(keep))

\* json_str.split('\n')
RECURSIVE Split(_)
Split(str) ==
    LET breaks == {i \in DOMAIN str : str[i] = "\n"}
    IN  IF breaks = {} THEN <<str>>
        ELSE <<SubSeq(str, 1, Min(breaks) - 1)>>
                \o Split(SubSeq(str, Min(breaks) + 1, Len(str)))

\* '\n'.join(cleaned_lines)
RECURSIVE Join(_)
Join(lines) ==
    IF lines = <<>> THEN <<>>
    ELSE IF Len(lines) = 1 THEN lines[1]
    ELSE lines[1] \o <<"\n">> \o Join(Tail(lines))

\* ---------------------------------------------------- clean_json_comments
\* One turn of the loop over enumerate(line), at position i; comment_pos is
\* 0 while no comment was found (positions count from 1), and the loop has
\* ended once it is set.
ScanChar(line, i, st) ==
    IF st.comment_pos > 0 THEN st
    ELSE IF st.escape_next THEN [st EXCEPT !.escape_next = FALSE]
    ELSE IF line[i] = "\\" THEN [st EXCEPT !.escape_next = TRUE]
    ELSE IF line[i] = "\"" THEN [st EXCEPT !.in_string = ~st.in_string]
    ELSE IF /\ ~st.in_string
            /\ line[i] = "/"
            /\ i + 1 <= Len(line)
            /\ line[i + 1] = "/"
         THEN [st EXCEPT !.comment_pos = i]
    ELSE st

\* The turns for the positions lo..hi, one after the other, until the break.
RECURSIVE ScanLine(_, _, _, _)
ScanLine(line, lo, hi, st) ==
    IF lo > hi THEN st
    ELSE IF lo = hi THEN ScanChar(line, lo, st)
    ELSE LET mid == (lo + hi) \div 2
             first == ScanLine(line, lo, mid, st)
         IN  IF first.comment_pos > 0 THEN first
             ELSE ScanLine(line, mid + 1, hi, first)

comment_pos(line) ==
    ScanLine(line, 1, Len(line),
             [in_string |-> FALSE, escape_next |-> FALSE, comment_pos |-> 0]).comment_pos

\* line = line[:comment_pos].rstrip() if a comment was found
CleanedLine(line) ==
    IF comment_pos(line) > 0
    THEN rstrip(SubSeq(line, 1, comment_pos(line) - 1))
    ELSE line

\* if line.strip(): cleaned_lines.append(line)
AppendLine(lines, line) ==
    IF strip(line) # <<>> THEN Append(lines, line) ELSE lines

RECURSIVE CleanLines(_, _)
CleanLines(lines, done) ==
    IF lines = <<>> THEN done
    ELSE CleanLines(Tail(lines), AppendLine(done, CleanedLine(Head(lines))))

clean_json_comments(str) == Join(CleanLines(Split(str), <<>>))

\* --------------------------------------------------------------- json
\* A JSON value is <<type, parts>>: the pairs <<key, value>> of an object in
\* insertion order, the items of an array, the characters of a string, the
\* digits of a number; true, false and null have no parts.
Object(pairs) == <<"object", pairs>>
Array(items) == <<"array", items>>
StringValue(chars) == <<"string", chars>>
Number(digits) == <<"number", digits>>
Literal(word) == <<word, <<>>>>

\* What a scan returns: the value and the position after it, or a failure
\* (JSONDecodeError).
Scanned(value, next) == [ok |-> TRUE, value |-> value, next |-> next]
Failed == [ok |-> FALSE, value |-> <<>>, next |-> 0]

\* WHITESPACE.match(s, end).end()
RECURSIVE SkipWs(_, _)
SkipWs(s, i) == IF i <= Len(s) /\ s[i] \in Whitespace THEN SkipWs(s, i + 1) ELSE i

\* py_scanstring, from the position after the opening quote: a newline is a
\* control character, a backslash needs one of the escapes " \ / after it.
RECURSIVE ScanString(_, _, _)
ScanString(s, i, chars) ==
    IF i > Len(s) THEN Failed
    ELSE IF s[i] = "\"" THEN Scanned(chars, i + 1)
    ELSE IF s[i] = "\\"
         THEN IF i + 1 <= Len(s) /\ s[i + 1] \in {"\"", "\\", "/"}
              THEN ScanString(s, i + 2, Append(chars, s[i + 1]))
              ELSE Failed
    ELSE IF s[i] = "\n" THEN Failed
    ELSE ScanString(s, i + 1, Append(chars, s[i]))

\* The end of the run of digits that starts at i.
RECURSIVE SkipDigits(_, _)
SkipDigits(s, i) == IF i <= Len(s) /\ s[i] = "1" THEN SkipDigits(s, i + 1) ELSE i

\* dict(pairs): a later pair of the same key replaces the value.
PutPair(pairs, key, value) ==
    IF \E p \in DOMAIN pairs : pairs[p][1] = key
    THEN [p \in DOMAIN pairs |-> IF pairs[p][1] = key THEN <<key, value>> ELSE pairs[p]]
    ELSE Append(pairs, <<key, value>>)

RECURSIVE ScanOnce(_, _)
RECURSIVE ScanMembers(_, _, _)
RECURSIVE ScanItems(_, _, _)

\* JSONObject after a {, at the position where a key is due.
ScanMembers(s, i, pairs) ==
    IF i > Len(s) \/ s[i] # "\"" THEN Failed
    ELSE LET key == ScanString(s, i + 1, <<>>)
         IN  IF ~key.ok THEN Failed
             ELSE LET colon == SkipWs(s, key.next)
                  IN  IF colon > Len(s) \/ s[colon] # ":" THEN Failed
                      ELSE LET value == ScanOnce(s, SkipWs(s, colon + 1))
                           IN  IF ~value.ok THEN Failed
                               ELSE LET after == SkipWs(s, value.next)
                                        dict == PutPair(pairs, key.value, value.value)
                                    IN  IF after > Len(s) THEN Failed
                                        ELSE IF s[after] = "}"
                                             THEN Scanned(Object(dict), after + 1)
                                        ELSE IF s[after] = ","
                                             THEN ScanMembers(s, SkipWs(s, after + 1), dict)
                                        ELSE Failed

\* JSONArray after a [, at the position where a value is due.
ScanItems(s, i, items) ==
    LET value == ScanOnce(s, i)
    IN  IF ~value.ok THEN Failed
        ELSE LET after == SkipWs(s, value.next)
                 list == Append(items, value.value)
             IN  IF after > Len(s) THEN Failed
                 ELSE IF s[after] = "]" THEN Scanned(Array(list), after + 1)
                 ELSE IF s[after] = "," THEN ScanItems(s, SkipWs(s, after + 1), list)
                 ELSE Failed

\* scan_once(s, i)
ScanOnce(s, i) ==
    IF i > Len(s) THEN Failed
    ELSE IF s[i] = "\""
         THEN LET str == ScanString(s, i + 1, <<>>)
              IN  IF str.ok THEN Scanned(StringValue(str.value), str.next) ELSE Failed
    ELSE IF s[i] = "{"
         THEN LET first == SkipWs(s, i + 1)
              IN  IF first <= Len(s) /\ s[first] = "}"
                  THEN Scanned(Object(<<>>), first + 1)
                  ELSE ScanMembers(s, first, <<>>)
    ELSE IF s[i] = "["
         THEN LET first == SkipWs(s, i + 1)
              IN  IF first <= Len(s) /\ s[first] = "]"
                  THEN Scanned(Array(<<>>), first + 1)
                  ELSE ScanItems(s, first, <<>>)
    ELSE IF s[i] = "1"
         THEN Scanned(Number(SubSeq(s, i, SkipDigits(s, i) - 1)), SkipDigits(s, i))
    ELSE IF s[i] \in {"true", "false", "null"} THEN Scanned(Literal(s[i]), i + 1)
    ELSE Failed

\* json.loads(s): <<value>>, or <<>> for a JSONDecodeError.
loads(s) ==
    LET value == ScanOnce(s, SkipWs(s, 1))
    IN  IF value.ok /\ SkipWs(s, value.next) > Len(s) THEN <<value.value>> ELSE <<>>

\* json.dumps(value), for strings without control characters.
RECURSIVE Escaped(_)
Escaped(chars) ==
    IF chars = <<>> THEN <<>>
    ELSE (IF Head(chars) \in {"\"", "\\"} THEN <<"\\", Head(chars)>> ELSE <<Head(chars)>>)
            \o Escaped(Tail(chars))

RECURSIVE dumps(_)
RECURSIVE DumpItems(_)
RECURSIVE DumpPairs(_)

DumpItems(items) ==
    IF items = <<>> THEN <<>>
    ELSE IF Len(items) = 1 THEN dumps(items[1])
    ELSE dumps(items[1]) \o <<",", " ">> \o DumpItems(Tail(items))

DumpPairs(pairs) ==
    IF pairs = <<>> THEN <<>>
    ELSE LET pair == <<"\"">> \o Escaped(pairs[1][1]) \o <<"\"", ":", " ">>
                         \o dumps(pairs[1][2])
         IN  IF Len(pairs) = 1 THEN pair
             ELSE pair \o <<",", " ">> \o DumpPairs(Tail(pairs))

dumps(value) ==
    CASE value[1] = "object" -> <<"{">> \o DumpPairs(value[2]) \o <<"}">>
      [] value[1] = "array" -> <<"[">> \o DumpItems(value[2]) \o <<"]">>
      [] value[1] = "string" -> <<"\"">> \o Escaped(value[2]) \o <<"\"">>
      [] value[1] = "number" -> value[2]
      [] OTHER -> <<value[1]>>

\* bool(value): what `if result:` tests.
Truthy(value) ==
    CASE value[1] \in {"object", "array", "string"} -> value[2] # <<>>
      [] value[1] = "number" -> TRUE
      [] value[1] = "true" -> TRUE
      [] OTHER -> FALSE

\* ------------------------------------------------- the extraction patterns
\* Whether the tokens of pattern stand in s from position i on.
StartsWith(s, i, pattern) ==
    /\ i >= 1
    /\ i + Len(pattern) - 1 <= Len(s)
    /\ \A k \in DOMAIN pattern : s[i + k - 1] = pattern[k]

\* Whether char is the first token of s after the whitespace from i on.
NextIs(s, i, char) == SkipWs(s, i) <= Len(s) /\ s[SkipWs(s, i)] = char

\* try json.loads(json_content), except json.loads(clean_json_comments(...)),
\* except pass: <<value>> or <<>> (None).
LoadsCleaned(json_content) ==
    IF loads(json_content) # <<>> THEN loads(json_content)
    ELSE loads(clean_json_comments(json_content))

\* obj[key] of an object, <<>> when the key is missing.
Get(obj, key) ==
    LET hits == {p \in DOMAIN obj[2] : obj[2][p][1] = key}
    IN  IF hits = {} THEN <<>> ELSE <<obj[2][Min(hits)][2]>>

ClaimsKey == <<"claims">>

\* The claims lists of the parsed objects, one after the other.
RECURSIVE AllClaims(_)
AllClaims(objects) ==
    IF objects = <<>> THEN <<>>
    ELSE LET obj == Head(objects)
             claims == IF obj[1] = "object" THEN Get(obj, ClaimsKey) ELSE <<>>
         IN  (IF claims # <<>> /\ claims[1][1] = "array" THEN claims[1][2] ELSE <<>>)
                \o AllClaims(Tail(objects))

\* {"claims": all_claims}, or None when all_claims is empty.
ClaimsObject(all_claims) ==
    IF all_claims # <<>> THEN <<Object(<<(<<ClaimsKey, Array(all_claims)>>)>>)>> ELSE <<>>

\* r'```(?:json)?\s*(\{.*?\})\s*```': the group of the match at fence i.
FenceGroupStart(s, i) ==
    SkipWs(s, IF i + 1 <= Len(s) /\ s[i + 1] = "json" THEN i + 2 ELSE i + 1)

FenceGroupEnds(s, i) ==
    IF s[i] = "fence" /\ NextIs(s, FenceGroupStart(s, i), "{")
    THEN {e \in (FenceGroupStart(s, i) + 1)..Len(s) :
             s[e] = "}" /\ NextIs(s, e + 1, "fence")}
    ELSE {}

extract_json_from_markdown(s) ==
    LET starts == {i \in DOMAIN s : FenceGroupEnds(s, i) # {}}
    IN  IF starts = {} THEN <<>>
        ELSE LET i == Min(starts)
             IN  LoadsCleaned(strip(SubSeq(s, FenceGroupStart(s, i),
                                           Min(FenceGroupEnds(s, i)))))

\* r'</think>\s*(\{.*\})': the longest group.
ThinkGroupEnds(s, i) ==
    IF s[i] = "</think>" /\ NextIs(s, i + 1, "{")
    THEN {e \in (SkipWs(s, i + 1) + 1)..Len(s) : s[e] = "}"}
    ELSE {}

extract_json_after_think_tags(s) ==
    LET starts == {i \in DOMAIN s : ThinkGroupEnds(s, i) # {}}
    IN  IF starts = {} THEN <<>>
        ELSE LET i == Min(starts)
             IN  LoadsCleaned(strip(SubSeq(s, SkipWs(s, i + 1), Max(ThinkGroupEnds(s, i)))))

\* r'(\{"claims":\s*\[.*?\]\s*\})': the ends of the matches that start at i.
ClaimsHead == <<"{", "\"", "claims", "\"", ":">>

ClaimsMatchEnds(s, i) ==
    IF StartsWith(s, i, ClaimsHead) /\ NextIs(s, i + Len(ClaimsHead), "[")
    THEN {SkipWs(s, r + 1) : r \in {r \in (SkipWs(s, i + Len(ClaimsHead)) + 1)..Len(s) :
                                      s[r] = "]" /\ NextIs(s, r + 1, "}")}}
    ELSE {}

\* re.search from position from on: <<start, end>> of the match, or <<>>.
ClaimsSearch(s, from) ==
    LET starts == {i \in from..Len(s) : ClaimsMatchEnds(s, i) # {}}
    IN  IF starts = {} THEN <<>>
        ELSE <<Min(starts), Min(ClaimsMatchEnds(s, Min(starts)))>>

\* re.findall: the matches from left to right, none overlapping another.
RECURSIVE ClaimsFindAll(_, _)
ClaimsFindAll(s, from) ==
    LET match == ClaimsSearch(s, from)
    IN  IF match = <<>> THEN <<>>
        ELSE <<SubSeq(s, match[1], match[2])>> \o ClaimsFindAll(s, match[2] + 1)

\* The matches json.loads accepts.
RECURSIVE LoadedObjects(_)
LoadedObjects(matches) ==
    IF matches = <<>> THEN <<>>
    ELSE loads(strip(Head(matches))) \o LoadedObjects(Tail(matches))

extract_multiple_json_objects(s) ==
    LET matches == ClaimsFindAll(s, 1)
    IN  IF Len(matches) > 1 THEN ClaimsObject(AllClaims(LoadedObjects(matches)))
        ELSE <<>>

\* extract_json_by_pattern with r'(\{"claims":\s*\[.*?\]\s*\})'
extract_claims_object(s) ==
    LET match == ClaimsSearch(s, 1)
    IN  IF match = <<>> THEN <<>>
        ELSE LoadsCleaned(strip(SubSeq(s, match[1], match[2])))

\* r'(\{"taxonomy".*?\}\s*\]?\s*\})': the end of the match whose first
\* closing brace is at p, 0 when the rest does not match there.
TaxonomyHead == <<"{", "\"", "taxonomy", "\"">>

TaxonomyTailEnd(s, p) ==
    IF s[p] # "}" THEN 0
    ELSE LET q == SkipWs(s, p + 1)
         IN  IF q > Len(s) THEN 0
             ELSE IF s[q] = "}" THEN q
             ELSE IF s[q] = "]" /\ NextIs(s, q + 1, "}") THEN SkipWs(s, q + 1)
             ELSE 0

TaxonomyMatchEnds(s, i) ==
    IF StartsWith(s, i, TaxonomyHead)
    THEN {p \in (i + Len(TaxonomyHead))..Len(s) : TaxonomyTailEnd(s, p) > 0}
    ELSE {}

\* extract_json_by_pattern with the pattern above and field_name "taxonomy"
extract_taxonomy_object(s) ==
    LET starts == {i \in DOMAIN s : TaxonomyMatchEnds(s, i) # {}}
    IN  IF starts = {} THEN <<>>
        ELSE LET i == Min(starts)
                 json_content ==
                     strip(SubSeq(s, i, TaxonomyTailEnd(s, Min(TaxonomyMatchEnds(s, i)))))
             IN  LoadsCleaned(IF json_content[Len(json_content)] # "}"
                              THEN Append(json_content, "}")
                              ELSE json_content)

\* r'(\{[^{}]*"taxonomy"[^{}]*\[.*?\]\s*\})': from the brace at i, the word
\* at k and the bracket at m with no brace in between, the closing bracket
\* at r; the two [^{}]* take the longest run that lets the rest match.
TaxonomyWord == <<"\"", "taxonomy", "\"">>

NoBrace(s, from, to) == \A x \in from..to : s[x] \notin {"{", "}"}

PartialCloses(s, m) ==
    {r \in (m + 1)..Len(s) : s[r] = "]" /\ NextIs(s, r + 1, "}")}

PartialBrackets(s, k) ==
    {m \in (k + Len(TaxonomyWord))..Len(s) :
        /\ s[m] = "["
        /\ NoBrace(s, k + Len(TaxonomyWord), m - 1)
        /\ PartialCloses(s, m) # {}}

PartialWords(s, i) ==
    IF s[i] # "{" THEN {}
    ELSE {k \in (i + 1)..Len(s) :
             /\ StartsWith(s, k, TaxonomyWord)
             /\ NoBrace(s, i + 1, k - 1)
             /\ PartialBrackets(s, k) # {}}

\* extract_json_by_pattern with the pattern above
extract_partial_taxonomy(s) ==
    LET starts == {i \in DOMAIN s : PartialWords(s, i) # {}}
    IN  IF starts = {} THEN <<>>
        ELSE LET i == Min(starts)
                 k == Max(PartialWords(s, i))
                 m == Max(PartialBrackets(s, k))
                 r == Min(PartialCloses(s, m))
             IN  LoadsCleaned(strip(SubSeq(s, i, SkipWs(s, r + 1))))

\* r'(?:output|result|JSON|taxonomy|claims):\s*(\{.*?\})' with re.IGNORECASE
TextWords == {"output", "result", "JSON", "json", "taxonomy", "claims"}

TextGroupEnds(s, i) ==
    IF s[i] \in TextWords /\ i + 1 <= Len(s) /\ s[i + 1] = ":" /\ NextIs(s, i + 2, "{")
    THEN {e \in (SkipWs(s, i + 2) + 1)..Len(s) : s[e] = "}"}
    ELSE {}

extract_json_after_text(s) ==
    LET starts == {i \in DOMAIN s : TextGroupEnds(s, i) # {}}
    IN  IF starts = {} THEN <<>>
        ELSE LET i == Min(starts)
             IN  loads(strip(SubSeq(s, SkipWs(s, i + 2), Min(TextGroupEnds(s, i)))))

\* --------------------------------------------------- repair_malformed_json
ClaimsOpen == <<"{", "\"", "claims", "\"">>

\* json_content.count('{"claims"')
RECURSIVE CountClaimsOpen(_, _)
CountClaimsOpen(s, from) ==
    LET starts == {i \in from..Len(s) : StartsWith(s, i, ClaimsOpen)}
    IN  IF starts = {} THEN 0
        ELSE 1 + CountClaimsOpen(s, Min(starts) + Len(ClaimsOpen))

\* brace_count after the characters start..i of temp_content.
BraceCount(s, start, i) ==
    Cardinality({x \in start..i : s[x] = "{"}) - Cardinality({x \in start..i : s[x] = "}"})

\* end: the first closing brace that brings the count to 0, start if none.
BraceEnd(s, start) ==
    LET closes == {i \in start..Len(s) : s[i] = "}" /\ BraceCount(s, start, i) = 0}
    IN  IF closes = {} THEN start ELSE Min(closes)

\* The while loop over temp_content: the objects with a claims key.
RECURSIVE RepairObjects(_)
RepairObjects(temp_content) ==
    LET starts == {i \in DOMAIN temp_content : StartsWith(temp_content, i, ClaimsOpen)}
    IN  IF starts = {} THEN <<>>
        ELSE LET start == Min(starts)
                 end == BraceEnd(temp_content, start)
                 obj == loads(SubSeq(temp_content, start, end))
             IN  IF end > start
                 THEN (IF obj # <<>> /\ obj[1][1] = "object" /\ Get(obj[1], ClaimsKey) # <<>>
                       THEN obj ELSE <<>>)
                         \o RepairObjects(SubSeq(temp_content, end + 1, Len(temp_content)))
                 ELSE <<>>

repair_malformed_json(s) ==
    LET opens == {i \in DOMAIN s : s[i] = "{"}
        closes == {i \in DOMAIN s : s[i] = "}"}
    IN  IF opens = {} \/ closes = {} THEN <<>>
        ELSE IF Max(closes) <= Min(opens) THEN <<>>
        ELSE LET json_content == SubSeq(s, Min(opens), Max(closes))
                 merged == IF CountClaimsOpen(json_content, 1) > 1
                           THEN ClaimsObject(AllClaims(RepairObjects(json_content)))
                           ELSE <<>>
             IN  IF merged # <<>> THEN merged ELSE LoadsCleaned(json_content)

\* --------------------------------------------- extract_json_from_response
\* The longest array the responses explored hold.
MaxItems == 2

KeyA == <<"a">>
TaxonomyKey == <<"taxonomy">>
One == Number(<<"1">>)

\* The contents of the strings explored: letters, braces, brackets, slashes.
StringPool == {<<>>, <<"a">>, <<"}">>, <<"]", "}">>, <<"{", "[">>, <<"/", "/", "a">>}

Scalars ==
    {One, Literal("true"), Literal("false"), Literal("null")}
        \cup {StringValue(chars) : chars \in StringPool}

\* The claim objects explored: a number, a nested array, a string that
\* holds a bracket and a brace.
ClaimPool ==
    {Object(<<(<<KeyA, One>>)>>),
     Object(<<(<<KeyA, Array(<<One>>)>>)>>),
     Object(<<(<<KeyA, StringValue(<<"]", "}">>)>>)>>)}

ClaimArrays == {Array(items) : items \in UNION {[1..n -> ClaimPool] : n \in 0..MaxItems}}

JsonObjects ==
    {Object(<<>>)}
        \cup {Object(<<(<<KeyA, value>>)>>) :
                 value \in Scalars \cup {Array(<<>>), Object(<<>>),
                                         Array(<<StringValue(<<"]">>)>>)}}
        \cup {Object(<<(<<ClaimsKey, claims>>)>>) : claims \in ClaimArrays}
        \cup {Object(<<(<<TaxonomyKey, Array(<<>>)>>)>>),
              Object(<<(<<TaxonomyKey, Array(<<Object(<<(<<KeyA, One>>)>>)>>)>>)>>),
              Object(<<(<<KeyA, One>>), (<<TaxonomyKey, Array(<<One>>)>>)>>)}

\* prefix, a fenced block holding the serialization of J, suffix.
Fenced(prefix, J, suffix) ==
    prefix \o <<"\n", "fence", "json", "\n">> \o dumps(J) \o <<"\n", "fence", "\n">> \o suffix

\* The serializations of {"claims": A} and {"claims": B} with a space between.
Concatenated(A, B) ==
    dumps(Object(<<(<<ClaimsKey, A>>)>>)) \o <<" ">> \o dumps(Object(<<(<<ClaimsKey, B>>)>>))

\* The texts a model puts before and after a value.
Prefixes == {<<>>, <<"a", " ">>, <<"a", "</think>", "\n">>, <<"result", ":", " ">>}
Suffixes == {<<>>, <<" ", "/", "/", " ", "a">>}

\* origin = <<form, value, value>> and the text written from it.
Responses ==
    {<<(<<"fenced", J, J>>), Fenced(prefix, J, suffix)>> :
        J \in JsonObjects, prefix \in {<<>>, <<"a">>}, suffix \in {<<>>, <<"a">>}}
    \cup {<<(<<"concatenated", A, B>>), Concatenated(A, B)>> :
             A \in ClaimArrays, B \in ClaimArrays}
    \cup {<<(<<"text", value, value>>), prefix \o dumps(value) \o suffix>> :
             value \in JsonObjects \cup Scalars \cup ClaimArrays,
             prefix \in Prefixes, suffix \in Suffixes}
    \cup {<<(<<"text", Literal("null"), Literal("null")>>), text>> :
             text \in {<<>>, <<" ">>, <<"a">>, <<"}", "{">>}}

InitParse ==
    /\ pc = "check"
    /\ \E response \in Responses :
          /\ origin = response[1]
          /\ response_content = response[2]
    /\ result = <<>>
    /\ json_str = <<>>
    /\ line_i = 0
    /\ cleaned_lines = <<>>
    /\ cleaned = <<>>
    /\ Idle1 /\ Idle2 /\ Idle3 /\ Idle4

\* if result: return result, else go on with the next strategy.
ReturnOr(found, next) ==
    IF found # <<>> /\ Truthy(found[1])
    THEN result' = found /\ pc' = "returned"
    ELSE pc' = next /\ UNCHANGED result

Unparsed == <<origin, json_str, line_i, cleaned_lines, cleaned>>

\* if not content: raise ValueError; content = content.strip()
CheckContent ==
    /\ pc = "check"
    /\ IF response_content = <<>>
       THEN pc' = "raised" /\ UNCHANGED response_content
       ELSE pc' = "direct" /\ response_content' = strip(response_content)
    /\ UNCHANGED <<result, Unparsed>>
    /\ UNCHANGED <<vars1, vars2, vars3, vars4>>

\* Strategy 1: whatever json.loads makes of the content is returned.
ParseDirect ==
    /\ pc = "direct"
    /\ IF LoadsCleaned(response_content) # <<>>
       THEN result' = LoadsCleaned(response_content) /\ pc' = "returned"
       ELSE pc' = "markdown" /\ UNCHANGED result
    /\ UNCHANGED <<response_content, Unparsed>>
    /\ UNCHANGED <<vars1, vars2, vars3, vars4>>

TryMarkdown ==
    /\ pc = "markdown"
    /\ ReturnOr(extract_json_from_markdown(response_content), "think")
    /\ UNCHANGED <<response_content, Unparsed>>
    /\ UNCHANGED <<vars1, vars2, vars3, vars4>>

TryThinkTags ==
    /\ pc = "think"
    /\ ReturnOr(extract_json_after_think_tags(response_content), "multiple")
    /\ UNCHANGED <<response_content, Unparsed>>
    /\ UNCHANGED <<vars1, vars2, vars3, vars4>>

TryMultiple ==
    /\ pc = "multiple"
    /\ ReturnOr(extract_multiple_json_objects(response_content), "taxonomy")
    /\ UNCHANGED <<response_content, Unparsed>>
    /\ UNCHANGED <<vars1, vars2, vars3, vars4>>

TryTaxonomy ==
    /\ pc = "taxonomy"
    /\ ReturnOr(extract_taxonomy_object(response_content), "partial")
    /\ UNCHANGED <<response_content, Unparsed>>
    /\ UNCHANGED <<vars1, vars2, vars3, vars4>>

TryPartialTaxonomy ==
    /\ pc = "partial"
    /\ ReturnOr(extract_partial_taxonomy(response_content), "claims")
    /\ UNCHANGED <<response_content, Unparsed>>
    /\ UNCHANGED <<vars1, vars2, vars3, vars4>>

TryClaims ==
    /\ pc = "claims"
    /\ ReturnOr(extract_claims_object(response_content), "text")
    /\ UNCHANGED <<response_content, Unparsed>>
    /\ UNCHANGED <<vars1, vars2, vars3, vars4>>

TryAfterText ==
    /\ pc = "text"
    /\ ReturnOr(extract_json_after_text(response_content), "repair")
    /\ UNCHANGED <<response_content, Unparsed>>
    /\ UNCHANGED <<vars1, vars2, vars3, vars4>>

\* Strategy 9, and the ValueError when it finds nothing either.
TryRepair ==
    /\ pc = "repair"
    /\ ReturnOr(repair_malformed_json(response_content), "raised")
    /\ UNCHANGED <<response_content, Unparsed>>
    /\ UNCHANGED <<vars1, vars2, vars3, vars4>>

NextParse ==
    \/ CheckContent
    \/ ParseDirect
    \/ TryMarkdown
    \/ TryThinkTags
    \/ TryMultiple
    \/ TryTaxonomy
    \/ TryPartialTaxonomy
    \/ TryClaims
    \/ TryAfterText
    \/ TryRepair

SpecParse == InitParse /\ [][NextParse]_vars

Extracted == pc \in {"returned", "raised"}

\* C21: fenced-block round trip. For any JSON object J, the empty object
\* and objects whose strings or arrays hold braces or brackets included,
\* extract_json_from_response applied to prefix text, a fenced json block
\* holding the serialization of J, and suffix text returns exactly J.
C21_FencedRoundTrip ==
    Extracted /\ origin[1] = "fenced" =>
        pc = "returned" /\ result = <<origin[2]>>

\* C22: concatenated claims objects are merged. For any two claim arrays A
\* and B, the serialization of {claims: A}, a space and the serialization of
\* {claims: B} give {claims: A ++ B}: every claim, in order, also when A or
\* B is empty or the claim objects hold nested arrays.
C22_ConcatenatedMerged ==
    Extracted /\ origin[1] = "concatenated" =>
        /\ pc = "returned"
        /\ result = <<Object(<<(<<ClaimsKey, Array(origin[2][2] \o origin[3][2])>>)>>)>>

\* C23: extractor result shape. Whenever extract_json_from_response returns
\* instead of raising, the value is a JSON object or a JSON array, never a
\* bare number, string, boolean or null, for every input text.
C23_ResultShape ==
    pc = "returned" => result[1][1] \in {"object", "array"}

\* The characters of the texts given to clean_json_comments.
CleanChars == {"\"", "\\", "/", "a", " ", "\n"}

InitClean ==
    /\ pc = "lines"
    /\ json_str \in UNION {[1..n -> CleanChars] : n \in 0..MaxChars}
    /\ line_i = 1
    /\ cleaned_lines = <<>>
    /\ cleaned = <<>>
    /\ origin = <<>>
    /\ response_content = <<>>
    /\ result = <<>>
    /\ Idle1 /\ Idle2 /\ Idle3 /\ Idle4

\* One turn of the loop over the lines.
CleanLine ==
    /\ pc = "lines"
    /\ line_i <= Len(Split(json_str))
    /\ cleaned_lines' = AppendLine(cleaned_lines, CleanedLine(Split(json_str)[line_i]))
    /\ line_i' = line_i + 1
    /\ UNCHANGED <<pc, origin, response_content, result, json_str, cleaned>>
    /\ UNCHANGED <<vars1, vars2, vars3, vars4>>

\* return '\n'.join(cleaned_lines)
JoinLines ==
    /\ pc = "lines"
    /\ line_i > Len(Split(json_str))
    /\ cleaned' = Join(cleaned_lines)
    /\ pc' = "done"
    /\ UNCHANGED <<origin, response_content, result, json_str, line_i, cleaned_lines>>
    /\ UNCHANGED <<vars1, vars2, vars3, vars4>>

NextClean == CleanLine \/ JoinLines

SpecClean == InitClean /\ [][NextClean]_vars

\* Whether the characters before position i of a line leave a string
\* literal open, read as JSON does: a quote opens a literal, inside a
\* literal a backslash takes the next character with it and a quote that
\* follows no such backslash closes the literal.
RECURSIVE LiteralBefore(_, _)
LiteralBefore(line, i) ==
    IF i = 1 THEN [inside |-> FALSE, escaped |-> FALSE]
    ELSE LET before == LiteralBefore(line, i - 1)
             char == line[i - 1]
         IN  IF before.inside
             THEN IF before.escaped THEN [inside |-> TRUE, escaped |-> FALSE]
                  ELSE IF char = "\\" THEN [inside |-> TRUE, escaped |-> TRUE]
                  ELSE IF char = "\"" THEN [inside |-> FALSE, escaped |-> FALSE]
                  ELSE before
             ELSE [inside |-> char = "\"", escaped |-> FALSE]

\* The positions of a line where a // starts outside a string literal.
CommentStarts(line) ==
    {i \in 1..(Len(line) - 1) :
        /\ line[i] = "/"
        /\ line[i + 1] = "/"
        /\ ~LiteralBefore(line, i).inside}

\* A line without its comment, trailing blanks before the comment removed.
WithoutComment(line) ==
    IF CommentStarts(line) = {} THEN line
    ELSE rstrip(SubSeq(line, 1, Min(CommentStarts(line)) - 1))

\* C29: comment stripping. clean_json_comments removes from every line the
\* first // that lies outside a string literal and everything after it,
\* never a // inside a string literal, leaves a line without such a comment
\* unchanged, and drops the lines that are empty after stripping.
C29_CommentStripping ==
    pc = "done" /\ line_i > 0 =>
        LET lines == Split(json_str)
            stripped == [i \in DOMAIN lines |-> WithoutComment(lines[i])]
        IN  cleaned_lines = SelectSeq(stripped, LAMBDA line : strip(line) # <<>>)

====
